---- MODULE Spec2Model ----
(***************************************************************************)
(* State-machine model of the polarimetric ROI gate, the DoLP material     *)
(* classifier and the thermal-to-polarimetric fusion pipeline.             *)
(*                                                                         *)
(* Arrays (numpy.ndarray) are records [shape, px]: shape is <<h, w>> or    *)
(* <<h, w, c>>, px is a sequence of h rows, each a sequence of w pixels;   *)
(* a pixel of a 3-d array is a sequence of c channel values.               *)
(* Optional values (Python None) are sequences of length <= 1.             *)
(* DoLP values are integers counted in thousandths (0.10 is 100).          *)
(***************************************************************************)
EXTENDS Integers, Sequences, FiniteSets, TLC

VARIABLES cfg, op, arg, ret, pc, files, outcome, convert_defined

vars == <<cfg, op, arg, ret, pc, files, outcome, convert_defined>>

(***************************************************************************)
(* Bounds of the explored input space.                                     *)
(***************************************************************************)
MaxDim == 3
MaxRoi == 4
Reach == 6
MapLen == 2
SceneDim == 30

None == <<>>
Some(v) == <<v>>
IsNone(o) == Len(o) = 0
Get(o) == o[1]

Max(a, b) == IF a >= b THEN a ELSE b
Min(a, b) == IF a <= b THEN a ELSE b
Abs(a) == IF a < 0 THEN -a ELSE a

\* a result that is an exception: calls lists the pipeline stages entered
\* before it was raised
Raise(exception, calls) == [raised |-> exception, calls |-> calls]

(***************************************************************************)
(* numpy / Python primitives used by the code.                             *)
(***************************************************************************)
\* Python's normalisation of one slice bound against a length n.
PyIndex(i, n) == IF i < 0 THEN Max(i + n, 0) ELSE Min(i, n)

\* s[a:b] of a Python sequence / one numpy axis (0-based, half-open).
PySlice(s, a, b) ==
  LET lo == PyIndex(a, Len(s))
      hi == PyIndex(b, Len(s))
  IN IF hi <= lo THEN <<>> ELSE SubSeq(s, lo + 1, hi)

\* number of elements s[a:b] selects on an axis of length n
PySliceLen(a, b, n) == Max(PyIndex(b, n) - PyIndex(a, n), 0)

\* full_image[y0:y1, x0:x1] (and [..., :] for three dimensions)
Crop2D(img, y0, y1, x0, x1) ==
  LET h == img.shape[1]
      w == img.shape[2]
      rows == PySlice(img.px, y0, y1)
  IN [shape |-> [img.shape EXCEPT ![1] = PySliceLen(y0, y1, h),
                                  ![2] = PySliceLen(x0, x1, w)],
      px |-> [r \in 1..Len(rows) |-> PySlice(rows[r], x0, x1)]]

\* the constant a 2-d or 3-d array is padded with
FillPixel(shape) == IF Len(shape) = 3 THEN [k \in 1..shape[3] |-> 0] ELSE 0


\* as NpPad, but the left and top pads are placed after the data as well
NpPad_after_only(a, top, bottom, left, right) ==
  LET h == a.shape[1]
      w == a.shape[2]
      fill == FillPixel(a.shape)
      row(r) == [c \in 1..(left + w + right) |-> IF c > w THEN fill ELSE a.px[r][c]]
      blank == [c \in 1..(left + w + right) |-> fill]
  IN [shape |-> [a.shape EXCEPT ![1] = top + h + bottom, ![2] = left + w + right],
      px |-> [r \in 1..(top + h + bottom) |-> IF r > h THEN blank ELSE row(r)]]

\* np.pad(a, ((top, bottom), (left, right)[, (0, 0)]), mode='constant',
\* constant_values=0); pad widths are non-negative (numpy raises otherwise)
NpPad(a, top, bottom, left, right) ==
  LET h == a.shape[1]
      w == a.shape[2]
      fill == FillPixel(a.shape)
      row(r) == [c \in 1..(left + w + right) |->
                   IF c <= left \/ c > left + w THEN fill ELSE a.px[r][c - left]]
      blank == [c \in 1..(left + w + right) |-> fill]
  IN [shape |-> [a.shape EXCEPT ![1] = top + h + bottom,
                                ![2] = left + w + right],
      px |-> [r \in 1..(top + h + bottom) |->
                IF r <= top \/ r > top + h THEN blank ELSE row(r - top)]]

(***************************************************************************)
(* ROIGatingModule                                                         *)
(***************************************************************************)
\* ROIGatingModule.__init__: the fields read from the calibration record
Calibrations ==
  { [dx |-> -2, dy |-> 1, full_resolution |-> <<4, 3>>, default_roi_size |-> 2],
    [dx |-> 3, dy |-> -1, full_resolution |-> <<4, 3>>, default_roi_size |-> 4] }

apply_parallax_correction_clamped(c, thermal_x, thermal_y) ==
  <<Max(0, thermal_x + c.dx), Max(0, thermal_y + c.dy)>>

\* as apply_parallax_correction, but the thermal coordinates are handed on
\* uncorrected
apply_parallax_correction_uncorrected(c, thermal_x, thermal_y) ==
  <<thermal_x, thermal_y>>

apply_parallax_correction(c, thermal_x, thermal_y) ==
  LET polar_x == thermal_x + c.dx
      polar_y == thermal_y + c.dy
  IN <<polar_x, polar_y>>

extract_roi(c, full_image, roi_center_x, roi_center_y, roi_size_opt) ==
  LET roi_size == IF IsNone(roi_size_opt) THEN c.default_roi_size
                  ELSE Get(roi_size_opt)
      half_size == roi_size \div 2
      height == full_image.shape[1]
      width == full_image.shape[2]
      x_min == roi_center_x - half_size
      x_max == roi_center_x + half_size
      y_min == roi_center_y - half_size
      y_max == roi_center_y + half_size
      padding_applied == x_min < 0 \/ x_max > width \/ y_min < 0 \/ y_max > height
      x_min_clamped == Max(0, x_min)
      x_max_clamped == Min(width, x_max)
      y_min_clamped == Max(0, y_min)
      y_max_clamped == Min(height, y_max)
      roi_crop == Crop2D(full_image, y_min_clamped, y_max_clamped,
                         x_min_clamped, x_max_clamped)
      pad_top == Abs(Min(0, y_min))
      pad_bottom == Max(0, y_max - height)
      pad_left == Abs(Min(0, x_min))
      pad_right == Max(0, x_max - width)
      padded == IF padding_applied
                THEN NpPad(roi_crop, pad_top, pad_bottom, pad_left, pad_right)
                ELSE roi_crop
      metadata ==
        [roi_location |->
           [roi_center |-> [x |-> roi_center_x, y |-> roi_center_y],
            roi_size |-> roi_size,
            roi_bounds |-> [x_min |-> x_min_clamped, x_max |-> x_max_clamped,
                            y_min |-> y_min_clamped, y_max |-> y_max_clamped]],
         boundary_handling |->
           [padding_applied |-> padding_applied,
            pad_amounts |->
              IF padding_applied
              THEN Some([top |-> pad_top, bottom |-> pad_bottom,
                         left |-> pad_left, right |-> pad_right])
              ELSE None]]
  IN IF padding_applied /\ (pad_top < 0 \/ pad_bottom < 0 \/ pad_left < 0 \/ pad_right < 0)
     THEN [raised |-> "ValueError"]
     ELSE [raised |-> "none", roi |-> padded, metadata |-> metadata]

\* dict.get(key, {}) on a turret-command dictionary
DictGet(d, key) == IF key \in DOMAIN d THEN d[key] ELSE [absent |-> TRUE]

process_thermal_cue(c, full_image, turret_command, roi_size_opt) ==
  LET thermal_coords == DictGet(DictGet(turret_command, "turret_command"), "target_pixel")
      thermal_x == IF "u" \in DOMAIN thermal_coords THEN Some(thermal_coords.u) ELSE None
      thermal_y == IF "v" \in DOMAIN thermal_coords THEN Some(thermal_coords.v) ELSE None
  IN IF IsNone(thermal_x) \/ IsNone(thermal_y)
     THEN Raise("ValueError", <<>>)
     ELSE
       LET polar == apply_parallax_correction(c, Get(thermal_x), Get(thermal_y))
           extracted == extract_roi(c, full_image, polar[1], polar[2], roi_size_opt)
       IN [raised |-> "none",
           calls |-> <<"apply_parallax_correction", "extract_roi">>,
           roi |-> extracted.roi,
           metadata |->
             [roi |-> extracted.metadata,
              global_coordinates |->
                [thermal_x |-> Get(thermal_x), thermal_y |-> Get(thermal_y),
                 polarimetric_x |-> polar[1], polarimetric_y |-> polar[2]],
              boresight_offset |-> [dx |-> c.dx, dy |-> c.dy]]]

(***************************************************************************)
(* PolarimetrySimulator: thresholds and classify_target                    *)
(***************************************************************************)
\* DoLP thresholds, in thousandths
DRONE_DOLP_HIGH == 100
DRONE_DOLP_MED == 80
AMBIGUOUS_DOLP == 50
BIRD_DOLP_MED == 30
MIN_CONTRAST_RATIO == 2

RECURSIVE SumRange(_, _, _)
\* f[lo] + ... + f[hi]
SumRange(f, lo, hi) ==
  IF lo > hi THEN 0
  ELSE IF lo = hi THEN f[lo]
  ELSE LET mid == (lo + hi) \div 2
       IN SumRange(f, lo, mid) + SumRange(f, mid + 1, hi)

\* f[1] + ... + f[n]
SumTo(f, n) == SumRange(f, 1, n)

\* the values one pixel contributes to a[mask]: its scalar, or all its channels
PixelSum(a, r, c) ==
  IF Len(a.shape) = 3 THEN SumTo(a.px[r][c], a.shape[3]) ELSE a.px[r][c]

PixelCount(a) == IF Len(a.shape) = 3 THEN a.shape[3] ELSE 1

\* a boolean index must match the indexed array along its leading dimensions
MaskMatches(a, mask) ==
  a.shape[1] = mask.shape[1] /\ a.shape[2] = mask.shape[2]

\* np.mean(a[mask]) as the exact fraction n / d; d = 0 is NaN (empty selection)
MaskedMean(a, mask) ==
  LET h == a.shape[1]
      w == a.shape[2]
      rowsum(r) == SumTo([c \in 1..w |-> IF mask.px[r][c] THEN PixelSum(a, r, c) ELSE 0], w)
      rowcnt(r) == SumTo([c \in 1..w |-> IF mask.px[r][c] THEN PixelCount(a) ELSE 0], w)
  IN [n |-> SumTo([r \in 1..h |-> rowsum(r)], h),
      d |-> SumTo([r \in 1..h |-> rowcnt(r)], h)]

IsNaN(q) == q.d = 0
\* IEEE comparisons of a fraction with an integer k: false on NaN
FracLt(q, k) == q.d > 0 /\ q.n < k * q.d
FracGt(q, k) == q.d > 0 /\ q.n > k * q.d
FracGe(q, k) == q.d > 0 /\ q.n >= k * q.d
FracEq(q, k) == q.d > 0 /\ q.n = k * q.d

\* target_dolp_mean / background_dolp_mean if background_dolp_mean > 0 else 0
ContrastRatio_nonzero_guard(t, b) ==
  IF b.d > 0 /\ b.n # 0
  THEN IF b.n > 0 THEN [n |-> t.n * b.d, d |-> t.d * b.n]
       ELSE [n |-> -(t.n * b.d), d |-> t.d * (-b.n)]
  ELSE [n |-> 0, d |-> 1]

ContrastRatio(t, b) ==
  IF FracGt(b, 0) THEN [n |-> t.n * b.d, d |-> t.d * b.n]
  ELSE [n |-> 0, d |-> 1]

Verdict(l, c, v) == [classification |-> l, confidence |-> c, veto_decision |-> v]

\* the mutants of the decision tree used by the checks below
DecisionTree_strict_med(contrast_ratio, target_dolp_mean) ==
  IF FracLt(contrast_ratio, MIN_CONTRAST_RATIO)
  THEN Verdict("UNKNOWN", "LOW", "INSUFFICIENT_CONTRAST")
  ELSE IF FracGt(target_dolp_mean, DRONE_DOLP_HIGH)
  THEN Verdict("DRONE", "HIGH", "CONFIRM")
  ELSE IF FracGt(target_dolp_mean, DRONE_DOLP_MED)
  THEN Verdict("DRONE", "MEDIUM", "CONFIRM")
  ELSE IF FracGe(target_dolp_mean, AMBIGUOUS_DOLP)
  THEN Verdict("UNKNOWN", "LOW", "REQUIRE_FUSION")
  ELSE IF FracGe(target_dolp_mean, BIRD_DOLP_MED)
  THEN Verdict("BIRD", "MEDIUM", "REJECT")
  ELSE Verdict("BIRD", "HIGH", "REJECT")

DecisionTree_inclusive_high(contrast_ratio, target_dolp_mean) ==
  IF FracLt(contrast_ratio, MIN_CONTRAST_RATIO)
  THEN Verdict("UNKNOWN", "LOW", "INSUFFICIENT_CONTRAST")
  ELSE IF FracGe(target_dolp_mean, DRONE_DOLP_HIGH)
  THEN Verdict("DRONE", "HIGH", "CONFIRM")
  ELSE IF FracGe(target_dolp_mean, DRONE_DOLP_MED)
  THEN Verdict("DRONE", "MEDIUM", "CONFIRM")
  ELSE IF FracGe(target_dolp_mean, AMBIGUOUS_DOLP)
  THEN Verdict("UNKNOWN", "LOW", "REQUIRE_FUSION")
  ELSE IF FracGe(target_dolp_mean, BIRD_DOLP_MED)
  THEN Verdict("BIRD", "MEDIUM", "REJECT")
  ELSE Verdict("BIRD", "HIGH", "REJECT")

\* the tree with MEDIUM confidence on its ambiguous branch
DecisionTree_ambiguous_medium(contrast_ratio, target_dolp_mean) ==
  IF FracLt(contrast_ratio, MIN_CONTRAST_RATIO)
  THEN Verdict("UNKNOWN", "LOW", "INSUFFICIENT_CONTRAST")
  ELSE IF FracGt(target_dolp_mean, DRONE_DOLP_HIGH)
  THEN Verdict("DRONE", "HIGH", "CONFIRM")
  ELSE IF FracGe(target_dolp_mean, DRONE_DOLP_MED)
  THEN Verdict("DRONE", "MEDIUM", "CONFIRM")
  ELSE IF FracGe(target_dolp_mean, AMBIGUOUS_DOLP)
  THEN Verdict("UNKNOWN", "MEDIUM", "REQUIRE_FUSION")
  ELSE IF FracGe(target_dolp_mean, BIRD_DOLP_MED)
  THEN Verdict("BIRD", "MEDIUM", "REJECT")
  ELSE Verdict("BIRD", "HIGH", "REJECT")

\* classify_target, the if / elif chain
DecisionTree(contrast_ratio, target_dolp_mean) ==
  IF FracLt(contrast_ratio, MIN_CONTRAST_RATIO)
  THEN Verdict("UNKNOWN", "LOW", "INSUFFICIENT_CONTRAST")
  ELSE IF FracGt(target_dolp_mean, DRONE_DOLP_HIGH)
  THEN Verdict("DRONE", "HIGH", "CONFIRM")
  ELSE IF FracGe(target_dolp_mean, DRONE_DOLP_MED)
  THEN Verdict("DRONE", "MEDIUM", "CONFIRM")
  ELSE IF FracGe(target_dolp_mean, AMBIGUOUS_DOLP)
  THEN Verdict("UNKNOWN", "LOW", "REQUIRE_FUSION")
  ELSE IF FracGe(target_dolp_mean, BIRD_DOLP_MED)
  THEN Verdict("BIRD", "MEDIUM", "REJECT")
  ELSE Verdict("BIRD", "HIGH", "REJECT")

classify_target(dolp_map, target_mask, background_mask) ==
  IF ~MaskMatches(dolp_map, target_mask) \/ ~MaskMatches(dolp_map, background_mask)
  THEN [raised |-> "IndexError"]
  ELSE
    LET target_dolp_mean == MaskedMean(dolp_map, target_mask)
        background_dolp_mean == MaskedMean(dolp_map, background_mask)
        contrast_ratio == ContrastRatio(target_dolp_mean, background_dolp_mean)
        v == DecisionTree(contrast_ratio, target_dolp_mean)
    IN [raised |-> "none",
        classification |-> v.classification,
        confidence |-> v.confidence,
        veto_decision |-> v.veto_decision,
        metrics |-> [dolp_target_pct |-> [target_dolp_mean EXCEPT !.n = @ * 100],
                     dolp_background_pct |-> [background_dolp_mean EXCEPT !.n = @ * 100],
                     contrast_ratio |-> contrast_ratio]]

(***************************************************************************)
(* PolarimetrySimulator: the synthetic scene process_thermal_detection     *)
(* builds when no image is supplied                                        *)
(***************************************************************************)
BACKGROUND_DOLP == 25
TARGET_SIZE == 80
DRONE_DOLP_CLIP_MAX == 150
BIRD_DOLP_BASE == 22
BIRD_DOLP_CLIP_MIN == 15
BIRD_DOLP_CLIP_MAX == 28

Clip(v, lo, hi) == Max(lo, Min(hi, v))

\* create_synthetic_scene: the boolean target mask, a disc around target_center
create_synthetic_scene(image_size, target_center, target_size) ==
  LET width == image_size[1]
      height == image_size[2]
      cx == target_center[1]
      cy == target_center[2]
      radius == target_size \div 2
  IN [shape |-> <<height, width>>,
      px |-> [r \in 1..height |-> [c \in 1..width |->
                ((c - 1) - cx) * ((c - 1) - cx) + ((r - 1) - cy) * ((r - 1) - cy)
                  <= radius * radius]]]

\* inject_dolp_signature: the dolp_map; noise is the value np.random.normal
\* drew, taken the same on every target pixel
inject_dolp_signature(target_mask, target_type, noise) ==
  LET target_dolp ==
        IF target_type = "drone"
        THEN Clip((DRONE_DOLP_MED + DRONE_DOLP_HIGH) \div 2 + noise,
                  DRONE_DOLP_MED, DRONE_DOLP_CLIP_MAX)
        ELSE Clip(BIRD_DOLP_BASE + noise, BIRD_DOLP_CLIP_MIN, BIRD_DOLP_CLIP_MAX)
  IN [shape |-> target_mask.shape,
      px |-> [r \in 1..target_mask.shape[1] |-> [c \in 1..target_mask.shape[2] |->
                IF target_mask.px[r][c] THEN target_dolp ELSE BACKGROUND_DOLP]]]

(***************************************************************************)
(* ThermalPolarimetricFusion                                               *)
(***************************************************************************)
MARGIN == 40
DEFAULT_FUSION_ROI_SIZE == 256

\* 'bird' in target['classification'].lower()
ContainsBird(text) == text \in {"bird", "BIRD", "large bird"}

\* ~roi_target_mask
Invert(mask) ==
  [shape |-> mask.shape,
   px |-> [r \in 1..mask.shape[1] |-> [c \in 1..mask.shape[2] |-> ~mask.px[r][c]]]]

\* full_target_mask.astype(np.uint8)
AsUint8(mask) ==
  [shape |-> mask.shape,
   px |-> [r \in 1..mask.shape[1] |-> [c \in 1..mask.shape[2] |->
             IF mask.px[r][c] THEN 1 ELSE 0]]]

\* roi_target_mask.astype(bool)
AsBool(a) ==
  [shape |-> a.shape,
   px |-> [r \in 1..a.shape[1] |-> [c \in 1..a.shape[2] |-> a.px[r][c] # 0]]]

\* np.zeros((roi_size, roi_size), dtype=bool) with
\* [center-margin:center+margin, center-margin:center+margin] set True
CenterMask(roi_size) ==
  LET center == roi_size \div 2
      lo == PyIndex(center - MARGIN, roi_size)
      hi == PyIndex(center + MARGIN, roi_size)
      sel(k) == lo < k /\ k <= hi
  IN [shape |-> <<roi_size, roi_size>>,
      px |-> [r \in 1..roi_size |-> [c \in 1..roi_size |-> sel(r) /\ sel(c)]]]

_get_fusion_action_swapped(classification) ==
  LET veto == classification.veto_decision
  IN IF veto = "CONFIRM" THEN "TRACK_AS_DRONE"
     ELSE IF veto = "REQUIRE_FUSION" THEN "DISCARD_AS_BIOLOGICAL"
     ELSE "DEFER_TO_RADAR"

_get_fusion_action(classification) ==
  LET veto == classification.veto_decision
  IN IF veto = "CONFIRM" THEN "TRACK_AS_DRONE"
     ELSE IF veto = "REJECT" THEN "DISCARD_AS_BIOLOGICAL"
     ELSE "DEFER_TO_RADAR"

\* process_thermal_detection from the parallax correction on; target is
\* thermal_data['targets'][0], known to hold centroid and target_id
FusePipeline(c, target, image_opt, roi_size, noise) ==
  LET thermal_u == target.centroid[1]
      thermal_v == target.centroid[2]
      polar == apply_parallax_correction(c, thermal_u, thermal_v)
      polar_u == polar[1]
      polar_v == polar[2]
      synthetic == IsNone(image_opt)
      target_type ==
        IF "classification" \in DOMAIN target /\ ContainsBird(target.classification)
        THEN "bird" ELSE "drone"
      target_mask_full ==
        create_synthetic_scene(c.full_resolution, <<polar_u, polar_v>>, TARGET_SIZE)
      full_polarimetric_image ==
        IF synthetic THEN inject_dolp_signature(target_mask_full, target_type, noise)
        ELSE Get(image_opt)
      roi == extract_roi(c, full_polarimetric_image, polar_u, polar_v, Some(roi_size))
      roi_target_mask ==
        IF synthetic
        THEN AsBool(extract_roi(c, AsUint8(target_mask_full), polar_u, polar_v,
                                Some(roi_size)).roi)
        ELSE CenterMask(roi_size)
      roi_background_mask == Invert(roi_target_mask)
      classification == classify_target(roi.roi, roi_target_mask, roi_background_mask)
  IN IF roi.raised # "none"
     THEN [raised |-> roi.raised,
           calls |-> <<"apply_parallax_correction", "extract_roi">>]
     ELSE IF classification.raised # "none"
     THEN [raised |-> classification.raised,
           calls |-> <<"apply_parallax_correction", "extract_roi", "classify_target">>]
     ELSE
       [raised |-> "none",
        thermal_detection |->
          [target_id |-> target.target_id,
           thermal_centroid |-> [u |-> thermal_u, v |-> thermal_v],
           thermal_classification |->
             IF "classification" \in DOMAIN target THEN target.classification
             ELSE "unknown"],
        coordinate_mapping |->
          [thermal_frame |-> [u |-> thermal_u, v |-> thermal_v],
           polarimetric_frame |-> [u |-> polar_u, v |-> polar_v],
           boresight_offset |-> [dx |-> c.dx, dy |-> c.dy]],
        roi_extraction |-> roi.metadata,
        polarimetric_classification |-> classification,
        fusion_decision |->
          [material_type |-> classification.classification,
           confidence |-> classification.confidence,
           veto |-> classification.veto_decision,
           action |-> _get_fusion_action(classification)]]

\* as process_thermal_detection, but a target without a centroid is taken to
\* be at the frame origin
process_thermal_detection_default_centroid(c, thermal_data, image_opt, roi_size, noise) ==
  IF "targets" \notin DOMAIN thermal_data THEN Raise("ValueError", <<>>)
  ELSE IF Len(thermal_data.targets) = 0 THEN Raise("ValueError", <<>>)
  ELSE LET target == thermal_data.targets[1]
           located == IF "centroid" \in DOMAIN target THEN target
                      ELSE [target_id |-> "UNKNOWN", centroid |-> <<0, 0>>]
       IN IF "target_id" \notin DOMAIN located THEN Raise("KeyError", <<>>)
          ELSE FusePipeline(c, located, image_opt, roi_size, noise)

\* as process_thermal_detection, but the target processed is the last of the
\* record
process_thermal_detection_last_target(c, thermal_data, image_opt, roi_size, noise) ==
  IF "targets" \notin DOMAIN thermal_data THEN Raise("ValueError", <<>>)
  ELSE IF Len(thermal_data.targets) = 0 THEN Raise("ValueError", <<>>)
  ELSE LET target == thermal_data.targets[Len(thermal_data.targets)]
       IN IF "centroid" \notin DOMAIN target THEN Raise("KeyError", <<>>)
          ELSE IF "target_id" \notin DOMAIN target THEN Raise("KeyError", <<>>)
          ELSE FusePipeline(c, target, image_opt, roi_size, noise)

process_thermal_detection(c, thermal_data, image_opt, roi_size, noise) ==
  IF "targets" \notin DOMAIN thermal_data THEN Raise("ValueError", <<>>)
  ELSE IF Len(thermal_data.targets) = 0 THEN Raise("ValueError", <<>>)
  ELSE LET target == thermal_data.targets[1]
       IN IF "centroid" \notin DOMAIN target THEN Raise("KeyError", <<>>)
          ELSE IF "target_id" \notin DOMAIN target THEN Raise("KeyError", <<>>)
          ELSE FusePipeline(c, target, image_opt, roi_size, noise)

(***************************************************************************)
(* Inputs                                                                  *)
(***************************************************************************)
\* an h x w image (ch = 0: two-dimensional, else ch channels) whose pixels
\* are pairwise distinct and non-zero
TestImage(h, w, ch) ==
  [shape |-> IF ch = 0 THEN <<h, w>> ELSE <<h, w, ch>>,
   px |-> [r \in 1..h |-> [c \in 1..w |->
             IF ch = 0 THEN (r - 1) * w + c
             ELSE [k \in 1..ch |-> 10 * ((r - 1) * w + c) + k]]]]

TestImages ==
  { TestImage(h, w, ch) : h \in (MaxDim - 1)..MaxDim, w \in (MaxDim - 1)..MaxDim,
                          ch \in {0, 2} }

\* DoLP samples (thousandths) around every threshold, with zero and a negative
DolpValues == {-20, 0, 10, 29, 30, 40, 49, 50, 79, 80, 100, 101}

Row(n, S) == [1..n -> S]
DolpMaps == UNION { { [shape |-> <<1, n>>, px |-> <<r>>] : r \in Row(n, DolpValues) }
                    : n \in 1..MapLen }
MaskPairs ==
  UNION { { <<[shape |-> <<1, n>>, px |-> <<t>>], [shape |-> <<1, n>>, px |-> <<b>>]>> :
              t \in Row(n, BOOLEAN), b \in Row(n, BOOLEAN) } : n \in 1..MapLen }

\* a supplied DoLP image: tv everywhere but bv on its first two rows and columns
SceneImage(h, w, tv, bv) ==
  [shape |-> <<h, w>>,
   px |-> [r \in 1..h |-> [c \in 1..w |-> IF r <= 2 \/ c <= 2 THEN bv ELSE tv]]]

SceneLevels ==
  { <<101, 10>>, <<100, 10>>, <<80, 40>>, <<79, 10>>, <<49, 10>>, <<29, 10>>,
    <<22, 25>>, <<100, 0>> }

SuppliedImages ==
  { SceneImage(SceneDim, SceneDim, l[1], l[2]) : l \in SceneLevels }
    \cup { TestImage(MaxDim, MaxDim, 2) }

Centroids == { <<14, 14>>, <<3, 2>>, <<SceneDim - 3, 14>>, <<-Reach, 1>>,
               <<SceneDim + Reach, SceneDim + 40>> }

DetectionRecords ==
  { [targets |-> <<[target_id |-> "T1", centroid |-> <<ctr[1] - c.dx, ctr[2] - c.dy>>,
                    classification |-> k]>>] :
      ctr \in Centroids, c \in Calibrations, k \in {"drone", "BIRD"} }
  \cup { [targets |-> <<[target_id |-> "T1", centroid |-> <<16, 13>>],
                        [target_id |-> "T2", centroid |-> <<3, 2>>,
                         classification |-> "bird"]>>],
         [frame |-> 7],
         [targets |-> <<>>],
         [targets |-> <<[target_id |-> "T1", classification |-> "drone"]>>],
         [targets |-> <<[centroid |-> <<14, 14>>]>>] }

\* 28 is the smallest even size whose CenterMask leaves a two-pixel border
FusionRoiSizes == {MaxRoi - 1, MaxRoi, 28}
NoiseLevels == {-60, 0, 60}

RoiSizes == {None} \cup { Some(n) : n \in 1..MaxRoi }

\* turret commands: complete, and with each level of the coordinates missing
TurretCommands ==
  { [turret_command |-> [target_pixel |-> [u |-> x, v |-> y]]] :
      x \in {-Reach, 0, 1}, y \in {0, 2, Reach} }
  \cup { [turret_command |-> [target_pixel |-> [u |-> 1]]],
         [turret_command |-> [target_pixel |-> [v |-> 2]]],
         [turret_command |-> [target_pixel |-> [w |-> 0]]],
         [turret_command |-> [pan_deg |-> 0]],
         [target_pixel |-> [u |-> 1, v |-> 2]] }

(***************************************************************************)
(* Actions                                                                 *)
(***************************************************************************)
Init ==
  /\ cfg \in Calibrations
  /\ op = "idle"
  /\ arg = [none |-> TRUE]
  /\ ret = [raised |-> "none"]
  /\ pc = "idle"
  /\ files = <<>>
  /\ outcome = <<>>
  /\ convert_defined = FALSE

ApplyParallax ==
  /\ op = "idle"
  /\ \E x \in -Reach..Reach, y \in -Reach..Reach :
       /\ op' = "apply_parallax_correction"
       /\ arg' = [thermal_x |-> x, thermal_y |-> y]
       /\ ret' = [raised |-> "none", value |-> apply_parallax_correction(cfg, x, y)]
  /\ UNCHANGED <<cfg, pc, files, outcome, convert_defined>>

ExtractRoi ==
  /\ op = "idle"
  /\ \E img \in TestImages, s \in RoiSizes :
       \E x \in -Reach..(img.shape[2] + Reach), y \in -Reach..(img.shape[1] + Reach) :
         /\ op' = "extract_roi"
         /\ arg' = [full_image |-> img, roi_center_x |-> x, roi_center_y |-> y,
                    roi_size |-> s]
         /\ ret' = extract_roi(cfg, img, x, y, s)
  /\ UNCHANGED <<cfg, pc, files, outcome, convert_defined>>

ClassifyTarget ==
  /\ op = "idle"
  /\ \E m \in DolpMaps, masks \in MaskPairs :
       /\ op' = "classify_target"
       /\ arg' = [dolp_map |-> m, target_mask |-> masks[1], background_mask |-> masks[2]]
       /\ ret' = classify_target(m, masks[1], masks[2])
  /\ UNCHANGED <<cfg, pc, files, outcome, convert_defined>>

ProcessThermalCue ==
  /\ op = "idle"
  /\ \E img \in TestImages, t \in TurretCommands, s \in RoiSizes :
       /\ op' = "process_thermal_cue"
       /\ arg' = [full_image |-> img, turret_command |-> t, roi_size |-> s]
       /\ ret' = process_thermal_cue(cfg, img, t, s)
  /\ UNCHANGED <<cfg, pc, files, outcome, convert_defined>>

\* with a supplied image the synthetic scene, and so its noise, is not used
ProcessThermalDetection ==
  /\ op = "idle"
  /\ \E d \in DetectionRecords, img \in {None} \cup { Some(i) : i \in SuppliedImages },
        s \in FusionRoiSizes, noise \in NoiseLevels :
       /\ IsNone(img) \/ noise = 0
       /\ op' = "process_thermal_detection"
       /\ arg' = [thermal_data |-> d, full_polarimetric_image |-> img, roi_size |-> s]
       /\ ret' = process_thermal_detection(cfg, d, img, s, noise)
  /\ UNCHANGED <<cfg, pc, files, outcome, convert_defined>>

\* the caller takes the result; the module is ready for the next call
Return ==
  /\ op # "idle"
  /\ op' = "idle"
  /\ arg' = [none |-> TRUE]
  /\ ret' = [raised |-> "none"]
  /\ UNCHANGED <<cfg, pc, files, outcome, convert_defined>>

Next ==
  \/ ApplyParallax \/ ExtractRoi \/ ClassifyTarget \/ ProcessThermalCue
  \/ ProcessThermalDetection \/ Return

Spec == Init /\ [][Next]_vars

(***************************************************************************)
(* main() of thermal_to_polarimetric.py: two test cases, each reading one  *)
(* thermal detection file if it exists                                     *)
(***************************************************************************)
\* what output/thermal_clear_night.json and output/thermal_fog.json may hold
MainRecords ==
  { [targets |-> <<[target_id |-> "T1", centroid |-> <<1, 1>>,
                    classification |-> "drone"]>>],
    [targets |-> <<[target_id |-> "T2", centroid |-> <<2, 0>>,
                    classification |-> "bird"]>>],
    [frame |-> 7],
    [targets |-> <<>>],
    [targets |-> <<[target_id |-> "T1"]>>] }

FileStates == {None} \cup { Some(d) : d \in MainRecords }

InitMain ==
  /\ cfg \in Calibrations
  /\ op = "idle"
  /\ arg = [none |-> TRUE]
  /\ ret = [raised |-> "none"]
  /\ pc = "case1"
  /\ files \in FileStates \X FileStates
  /\ outcome = <<[status |-> "pending"], [status |-> "pending"]>>
  /\ convert_defined = FALSE

\* Test Case 1: skip a missing file, else load, process, define convert_numpy,
\* save and print the summary; an exception leaves main
TestCase1 ==
  /\ pc = "case1"
  /\ IF IsNone(files[1])
     THEN /\ outcome' = [outcome EXCEPT ![1] = [status |-> "skipped"]]
          /\ pc' = "case2"
          /\ UNCHANGED convert_defined
     ELSE \E noise \in NoiseLevels :
            LET fusion_result ==
                  process_thermal_detection(cfg, Get(files[1]), None,
                                            DEFAULT_FUSION_ROI_SIZE, noise)
            IN IF fusion_result.raised # "none"
               THEN /\ outcome' = [outcome EXCEPT
                                     ![1] = [status |-> "raised",
                                             error |-> fusion_result.raised]]
                    /\ pc' = "crashed"
                    /\ UNCHANGED convert_defined
               ELSE /\ outcome' = [outcome EXCEPT
                                     ![1] = [status |-> "saved",
                                             fusion_decision |->
                                               fusion_result.fusion_decision]]
                    /\ convert_defined' = TRUE
                    /\ pc' = "case2"
  /\ UNCHANGED <<cfg, op, arg, ret, files>>

\* Test Case 2: skip a missing file, else load, process and save with the
\* convert_numpy that Test Case 1 defined
TestCase2 ==
  /\ pc = "case2"
  /\ IF IsNone(files[2])
     THEN /\ outcome' = [outcome EXCEPT ![2] = [status |-> "skipped"]]
          /\ pc' = "done"
     ELSE \E noise \in NoiseLevels :
            LET fusion_result_fog ==
                  process_thermal_detection(cfg, Get(files[2]), None,
                                            DEFAULT_FUSION_ROI_SIZE, noise)
            IN IF fusion_result_fog.raised # "none"
               THEN /\ outcome' = [outcome EXCEPT
                                     ![2] = [status |-> "raised",
                                             error |-> fusion_result_fog.raised]]
                    /\ pc' = "crashed"
               ELSE IF ~convert_defined
               THEN /\ outcome' = [outcome EXCEPT
                                     ![2] = [status |-> "raised",
                                             error |-> "UnboundLocalError"]]
                    /\ pc' = "crashed"
               ELSE /\ outcome' = [outcome EXCEPT
                                     ![2] = [status |-> "saved",
                                             fusion_decision |->
                                               fusion_result_fog.fusion_decision]]
                    /\ pc' = "done"
  /\ UNCHANGED <<cfg, op, arg, ret, files, convert_defined>>

NextMain == TestCase1 \/ TestCase2

SpecMain == InitMain /\ [][NextMain]_vars

(***************************************************************************)
(* SlewToCueController: numbers                                            *)
(*                                                                         *)
(* Angles are integers counted in thousandths of a degree, lengths in      *)
(* metres.  A float is a record [k, v]: k = "fin" with the value v, or     *)
(* k = "nan".  Arithmetic on angles rounds to nearest, ties to even, at    *)
(* FloatBits significant bits, as IEEE-754 addition does (binary64 keeps   *)
(* 53 bits; the rounding cases are the same at any width).                 *)
(* arctan2, cos and sin are evaluated by CORDIC shift-and-add iteration    *)
(* in millionths of a degree.                                              *)
(***************************************************************************)
FloatBits == 16

Fin(v) == [k |-> "fin", v |-> v]
NaN == [k |-> "nan", v |-> 0]
IsFin(f) == f.k = "fin"

RECURSIVE Pow2(_)
Pow2(n) == IF n <= 0 THEN 1 ELSE 2 * Pow2(n - 1)

RECURSIVE BitLen(_)
BitLen(n) == IF n = 0 THEN 0 ELSE 1 + BitLen(n \div 2)

\* round-half-up quotient of an integer by a positive integer
RoundDiv(a, b) == (2 * a + b) \div (2 * b)

\* an exact integer result rounded to a representable value
Fl(v) ==
  LET m == Abs(v)
      ulp == Pow2(BitLen(m) - FloatBits)
      q == m \div ulp
      rem == m % ulp
      up == 2 * rem > ulp \/ (2 * rem = ulp /\ q % 2 = 1)
      r == (IF up THEN q + 1 ELSE q) * ulp
  IN IF v < 0 THEN -r ELSE r

FAdd(a, b) == IF IsFin(a) /\ IsFin(b) THEN Fin(Fl(a.v + b.v)) ELSE NaN
FLt(a, b) == IsFin(a) /\ IsFin(b) /\ a.v < b.v
FLe(a, b) == IsFin(a) /\ IsFin(b) /\ a.v <= b.v

\* np.clip(x, lo, hi) = minimum(maximum(x, lo), hi): NaN stays NaN
NpClip(x, lo, hi) == IF IsFin(x) THEN Fin(Clip(x.v, lo, hi)) ELSE NaN

\* x % m for a float x and m > 0: fmod, then one rounded addition of m when
\* the remainder is negative
FloatMod(x, m) ==
  IF ~IsFin(x) THEN NaN
  ELSE LET r == IF x.v >= 0 THEN x.v % m ELSE -((-x.v) % m)
       IN IF r < 0 THEN Fin(Fl(r + m)) ELSE Fin(r)

RECURSIVE SqrtFloor(_, _, _)
SqrtFloor(n, lo, hi) ==
  IF lo >= hi THEN lo
  ELSE LET mid == (lo + hi + 1) \div 2
       IN IF mid * mid <= n THEN SqrtFloor(n, mid, hi) ELSE SqrtFloor(n, lo, mid - 1)

\* np.sqrt of a non-negative integer, to the nearest integer
NpSqrt(n) ==
  LET r == SqrtFloor(n, 0, Min(n, 46340))
  IN IF n - r * r > r THEN r + 1 ELSE r

CordicSteps == 20
AtanTable ==
  <<45000000, 26565051, 14036243, 7125016, 3576334, 1789911, 895174, 447614,
    223811, 111906, 55953, 27976, 13988, 6994, 3497, 1749, 874, 437, 219, 109>>
CordicGain == 6072529

RECURSIVE Vectoring(_, _, _, _)
Vectoring(x, y, z, i) ==
  IF i >= CordicSteps THEN z
  ELSE LET p == Pow2(i)
       IN IF y >= 0
          THEN Vectoring(x + y \div p, y - x \div p, z + AtanTable[i + 1], i + 1)
          ELSE Vectoring(x - y \div p, y + x \div p, z - AtanTable[i + 1], i + 1)

RECURSIVE Prescale(_, _)
Prescale(x, y) ==
  IF Max(x, y) >= 16777216 THEN <<x, y>> ELSE Prescale(2 * x, 2 * y)

\* np.degrees(np.arctan2(y, x)) in thousandths of a degree
ArcTan2Deg(y, x) ==
  IF y = 0 THEN (IF x < 0 THEN 180000 ELSE 0)
  ELSE IF x = 0 THEN (IF y > 0 THEN 90000 ELSE -90000)
  ELSE LET s == Prescale(Abs(x), Abs(y))
           a == RoundDiv(Vectoring(s[1], s[2], 0, 0), 1000)
           b == IF x > 0 THEN a ELSE 180000 - a
       IN IF y > 0 THEN b ELSE -b

RECURSIVE Rotation(_, _, _, _)
Rotation(x, y, z, i) ==
  IF i >= CordicSteps THEN <<x, y>>
  ELSE LET p == Pow2(i)
       IN IF z >= 0
          THEN Rotation(x - y \div p, y + x \div p, z - AtanTable[i + 1], i + 1)
          ELSE Rotation(x + y \div p, y - x \div p, z + AtanTable[i + 1], i + 1)

\* <<cos, sin>> of an angle given in millionths of a degree, in ten-thousandths
CosSin(micro) ==
  LET t == micro % 360000000
      fold == IF t <= 90000000 THEN <<t, 1>>
              ELSE IF t <= 270000000 THEN <<t - 180000000, -1>>
              ELSE <<t - 360000000, 1>>
      v == Rotation(CordicGain, 0, fold[1], 0)
  IN <<fold[2] * RoundDiv(v[1], 1000), fold[2] * RoundDiv(v[2], 1000)>>

(***************************************************************************)
(* SlewToCueController                                                     *)
(*                                                                         *)
(* Latitude and longitude are counted in units of degrees(1 / R_EARTH),    *)
(* the arc that is one metre on the ground, so that                        *)
(* R_EARTH * (radians(lat2) - radians(lat1)) is lat2 - lat1 metres.        *)
(***************************************************************************)
SEARCH_MIN_RADIUS == 500
MAX_SEARCH_RADIUS == 3000
DEFAULT_UNCERTAINTY_M == 10
DEFAULT_SEARCH_RADIUS == 2000
DEFAULT_NUM_POINTS == 20
FULL_TURN == 360000
TILT_LIMIT == 90000

\* 60 degrees of latitude in the unit above
LAT_60 == 6679169

\* np.cos(np.radians(turret_lat)) in thousandths, for the turret latitudes used
CosLat(lat) == IF lat = LAT_60 THEN 500 ELSE 1000

geodetic_to_enu(c, target_lat, target_lon, target_alt_m) ==
  LET d_lon == target_lon - c.turret_lon
      d_lat == target_lat - c.turret_lat
  IN [east_m |-> RoundDiv(CosLat(c.turret_lat) * d_lon, 1000),
      north_m |-> d_lat,
      up_m |-> target_alt_m - c.turret_alt_m]

\* arctan2(up, sqrt(e2n2)): the root is kept to the centimetre while that fits
ElevationDeg(up_m, e2n2) ==
  IF e2n2 <= 200000 THEN ArcTan2Deg(100 * up_m, NpSqrt(10000 * e2n2))
  ELSE ArcTan2Deg(up_m, NpSqrt(e2n2))

\* as enu_to_aer, but an azimuth of zero is taken around the circle as well
enu_to_aer_inclusive_wrap(east_m, north_m, up_m) ==
  LET raw == Fin(ArcTan2Deg(east_m, north_m))
  IN [azimuth_deg |-> IF FLe(raw, Fin(0)) THEN FAdd(raw, Fin(FULL_TURN)) ELSE raw,
      elevation_deg |-> Fin(ElevationDeg(up_m, east_m * east_m + north_m * north_m)),
      range_m |-> NpSqrt(east_m * east_m + north_m * north_m + up_m * up_m)]

\* as enu_to_aer, but the azimuth is counted from east, counter-clockwise
enu_to_aer_from_east(east_m, north_m, up_m) ==
  LET raw == Fin(ArcTan2Deg(north_m, east_m))
  IN [azimuth_deg |-> IF FLt(raw, Fin(0)) THEN FAdd(raw, Fin(FULL_TURN)) ELSE raw,
      elevation_deg |-> Fin(ElevationDeg(up_m, east_m * east_m + north_m * north_m)),
      range_m |-> NpSqrt(east_m * east_m + north_m * north_m + up_m * up_m)]

enu_to_aer(east_m, north_m, up_m) ==
  LET range_m == NpSqrt(east_m * east_m + north_m * north_m + up_m * up_m)
      raw == Fin(ArcTan2Deg(east_m, north_m))
      azimuth_deg == IF FLt(raw, Fin(0)) THEN FAdd(raw, Fin(FULL_TURN)) ELSE raw
      elevation_deg == Fin(ElevationDeg(up_m, east_m * east_m + north_m * north_m))
  IN [azimuth_deg |-> azimuth_deg, elevation_deg |-> elevation_deg, range_m |-> range_m]

geodetic_to_aer(c, target_lat, target_lon, target_alt_m) ==
  LET enu == geodetic_to_enu(c, target_lat, target_lon, target_alt_m)
  IN enu_to_aer(enu.east_m, enu.north_m, enu.up_m)

\* RadarTrackSimulator._enu_to_aer: the same conversion in the radar simulator
_enu_to_aer(east_m, north_m, up_m) ==
  LET range_m == NpSqrt(east_m * east_m + north_m * north_m + up_m * up_m)
      raw == Fin(ArcTan2Deg(east_m, north_m))
      azimuth_deg == IF FLt(raw, Fin(0)) THEN FAdd(raw, Fin(FULL_TURN)) ELSE raw
      ground_range == east_m * east_m + north_m * north_m
  IN [azimuth_deg |-> azimuth_deg,
      elevation_deg |-> Fin(ElevationDeg(up_m, ground_range)),
      range_m |-> range_m]

\* as aer_to_turret_command, but with the two axes exchanged
aer_to_turret_command_exchanged(azimuth_deg, elevation_deg) ==
  [pan_deg |-> elevation_deg, tilt_deg |-> azimuth_deg]

aer_to_turret_command(azimuth_deg, elevation_deg) ==
  [pan_deg |-> azimuth_deg, tilt_deg |-> elevation_deg]


\* as calculate_angular_uncertainty, but of the quotient range_m /
\* range_uncertainty_m
calculate_angular_uncertainty_inverse(range_m, range_uncertainty_m, numeric) ==
  IF range_m = 0
  THEN IF numeric = "float" THEN Raise("ZeroDivisionError", <<>>)
       ELSE [raised |-> "none",
             value |-> IF range_uncertainty_m = 0 THEN NaN
                       ELSE IF range_uncertainty_m > 0 THEN Fin(TILT_LIMIT)
                       ELSE Fin(-TILT_LIMIT)]
  ELSE LET a == ArcTan2Deg(Abs(range_m), Abs(range_uncertainty_m))
       IN [raised |-> "none",
           value |-> Fin(IF (range_uncertainty_m < 0) = (range_m < 0) THEN a ELSE -a)]

\* range_uncertainty_m / range_m followed by arctan and degrees.  numeric is
\* the type of range_m: a zero Python float divides with ZeroDivisionError, a
\* zero np.float64 gives inf, -inf or nan (and a RuntimeWarning).
calculate_angular_uncertainty(range_m, range_uncertainty_m, numeric) ==
  IF range_m = 0
  THEN IF numeric = "float" THEN Raise("ZeroDivisionError", <<>>)
       ELSE [raised |-> "none",
             value |-> IF range_uncertainty_m = 0 THEN NaN
                       ELSE IF range_uncertainty_m > 0 THEN Fin(TILT_LIMIT)
                       ELSE Fin(-TILT_LIMIT)]
  ELSE LET a == ArcTan2Deg(Abs(range_uncertainty_m), Abs(range_m))
       IN [raised |-> "none",
           value |-> Fin(IF (range_uncertainty_m < 0) = (range_m < 0) THEN a ELSE -a)]

\* theta[i] of np.linspace(0, 4 * pi, num_points), i from 0, in millionths of
\* a degree
SpiralTheta(i, num_points) ==
  IF num_points <= 1 THEN 0
  ELSE LET whole == (720 * i) \div (num_points - 1)
           part == (720 * i) % (num_points - 1)
       IN whole * 1000000 + RoundDiv(part * 1000000, num_points - 1)

\* r[i] = search_radius_deg * theta[i] / (4 * pi)
SpiralRadius(search_radius_deg, i, num_points) ==
  IF ~IsFin(search_radius_deg) THEN NaN
  ELSE IF num_points <= 1 THEN Fin(0)
  ELSE Fin(RoundDiv(search_radius_deg.v * i, num_points - 1))

\* r * cos(theta) or r * sin(theta), the factor given in ten-thousandths
FScale(r, factor) == IF IsFin(r) THEN Fin(RoundDiv(r.v * factor, 10000)) ELSE NaN

\* one pass of the loop: the point for theta[i]
SpiralPoint(center_pan_deg, center_tilt_deg, search_radius_deg, i, num_points) ==
  LET r == SpiralRadius(search_radius_deg, i, num_points)
      cs == CosSin(SpiralTheta(i, num_points))
      d_pan == FScale(r, cs[1])
      d_tilt == FScale(r, cs[2])
      pan == FAdd(center_pan_deg, d_pan)
      tilt == FAdd(center_tilt_deg, d_tilt)
  IN <<FloatMod(pan, FULL_TURN), NpClip(tilt, -TILT_LIMIT, TILT_LIMIT)>>

\* as generate_spiral_search_pattern, but the center is wrapped and clamped
\* like the other points
generate_spiral_search_pattern_wrapped_center(center_pan_deg, center_tilt_deg, search_radius_deg, num_points) ==
  IF num_points < 0 THEN Raise("ValueError", <<>>)
  ELSE [raised |-> "none",
        value |->
          <<<<FloatMod(center_pan_deg, FULL_TURN),
              NpClip(center_tilt_deg, -TILT_LIMIT, TILT_LIMIT)>>>>
          \o [k \in 1..num_points |->
                SpiralPoint(center_pan_deg, center_tilt_deg, search_radius_deg,
                            k - 1, num_points)]]

\* np.linspace raises ValueError for a negative number of samples
generate_spiral_search_pattern(center_pan_deg, center_tilt_deg, search_radius_deg, num_points) ==
  IF num_points < 0 THEN Raise("ValueError", <<>>)
  ELSE [raised |-> "none",
        value |->
          <<<<center_pan_deg, center_tilt_deg>>>>
          \o [k \in 1..num_points |->
                SpiralPoint(center_pan_deg, center_tilt_deg, search_radius_deg,
                            k - 1, num_points)]]

\* search_radius_deg *= 2.0
Doubled(f) == IF IsFin(f) THEN Fin(Fl(2 * f.v)) ELSE NaN

radar_track_to_turret_command(c, radar_track) ==
  IF "latitude" \notin DOMAIN radar_track THEN Raise("KeyError", <<>>)
  ELSE IF "longitude" \notin DOMAIN radar_track THEN Raise("KeyError", <<>>)
  ELSE IF "altitude_m" \notin DOMAIN radar_track THEN Raise("KeyError", <<>>)
  ELSE
    LET uncertainty_m == IF "uncertainty_m" \in DOMAIN radar_track
                         THEN radar_track.uncertainty_m ELSE DEFAULT_UNCERTAINTY_M
        aer == geodetic_to_aer(c, radar_track.latitude, radar_track.longitude,
                               radar_track.altitude_m)
        turret == aer_to_turret_command(aer.azimuth_deg, aer.elevation_deg)
        raw == calculate_angular_uncertainty(aer.range_m, uncertainty_m, "float64")
        search_radius_deg == NpClip(Doubled(raw.value), SEARCH_MIN_RADIUS, c.max_search_radius_deg)
        search_pattern ==
          generate_spiral_search_pattern(turret.pan_deg, turret.tilt_deg,
                                         search_radius_deg, DEFAULT_NUM_POINTS)
    IN [raised |-> "none",
        calls |-> <<"geodetic_to_aer", "aer_to_turret_command",
                    "calculate_angular_uncertainty", "generate_spiral_search_pattern">>,
        value |->
          [target_id |-> IF "target_id" \in DOMAIN radar_track
                         THEN radar_track.target_id ELSE "UNKNOWN",
           pan_deg |-> turret.pan_deg,
           tilt_deg |-> turret.tilt_deg,
           search_radius_deg |-> search_radius_deg,
           search_pattern |-> search_pattern.value,
           radar_azimuth_deg |-> aer.azimuth_deg,
           radar_elevation_deg |-> aer.elevation_deg,
           radar_range_m |-> aer.range_m,
           slew_to_cue_active |-> TRUE]]

(***************************************************************************)
(* SlewToCueController: inputs and actions                                 *)
(***************************************************************************)
Controllers ==
  { [turret_lat |-> 0, turret_lon |-> 0, turret_alt_m |-> 50, fov_deg |-> 50000,
     search_step_deg |-> 500, max_search_radius_deg |-> MAX_SEARCH_RADIUS],
    [turret_lat |-> LAT_60, turret_lon |-> -7000, turret_alt_m |-> 0, fov_deg |-> 50000,
     search_step_deg |-> 500, max_search_radius_deg |-> MAX_SEARCH_RADIUS] }

\* displacements in metres, of every sign, from one metre to twenty kilometres
Metres == {-20000, -1000, -1, 0, 1, 100, 1000, 20000}
\* longitude differences are even, so that half of one (the east displacement
\* at 60 degrees of latitude) is a whole number of metres
LonOffsets == {-20000, -1000, -2, 0, 2, 100, 1000, 20000}
TrackOffsets == {-20000, -2, 0, 2, 1000}
Uncertainties == {-10, 0, 10, 1000}

\* radar tracks around the turret of controller c: geodetic with and without
\* the optional fields, direct azimuth / elevation / range, and incomplete
RadarTracks(c) ==
  { [target_id |-> "TRK001", latitude |-> c.turret_lat + n, longitude |-> c.turret_lon + e,
     altitude_m |-> c.turret_alt_m + u, uncertainty_m |-> s] :
      n \in TrackOffsets, e \in TrackOffsets, u \in TrackOffsets, s \in Uncertainties }
  \cup { [latitude |-> c.turret_lat + n, longitude |-> c.turret_lon, altitude_m |-> c.turret_alt_m + 100] :
           n \in TrackOffsets }
  \cup { [target_id |-> "TRK002", azimuth_deg |-> Fin(a), elevation_deg |-> Fin(5711),
          range_m |-> 1005, uncertainty_m |-> 10] : a \in {0, 90000} }
  \cup { [target_id |-> "TRK003", latitude |-> c.turret_lat + 1000],
         [target_id |-> "TRK004", latitude |-> c.turret_lat, longitude |-> c.turret_lon] }

CenterPans == {-100, 0, 100, 45000, 360000, 720000}
CenterTilts == {-90000, -89000, 0, 5711, 88000, 90000, 95000}
SearchRadii == {Fin(0), Fin(SEARCH_MIN_RADIUS), Fin(DEFAULT_SEARCH_RADIUS),
                Fin(MAX_SEARCH_RADIUS), NaN}
NumPoints == {-1, 0, 1, 2, 5, DEFAULT_NUM_POINTS}
Ranges == {-100, -1, 0, 1, 100, 1005, 20000}

InitSlew ==
  /\ cfg \in Controllers
  /\ op = "idle"
  /\ arg = [none |-> TRUE]
  /\ ret = [raised |-> "none"]
  /\ pc = "idle"
  /\ files = <<>>
  /\ outcome = <<>>
  /\ convert_defined = FALSE

EnuToAer ==
  /\ op = "idle"
  /\ \E e \in Metres, n \in Metres, u \in Metres :
       /\ op' = "enu_to_aer"
       /\ arg' = [east_m |-> e, north_m |-> n, up_m |-> u]
       /\ ret' = [raised |-> "none", value |-> enu_to_aer(e, n, u)]
  /\ UNCHANGED <<cfg, pc, files, outcome, convert_defined>>

RadarEnuToAer ==
  /\ op = "idle"
  /\ \E e \in Metres, n \in Metres, u \in Metres :
       /\ op' = "_enu_to_aer"
       /\ arg' = [east_m |-> e, north_m |-> n, up_m |-> u]
       /\ ret' = [raised |-> "none", value |-> _enu_to_aer(e, n, u)]
  /\ UNCHANGED <<cfg, pc, files, outcome, convert_defined>>

GeodeticToAer ==
  /\ op = "idle"
  /\ \E n \in Metres, e \in LonOffsets, u \in Metres :
       /\ op' = "geodetic_to_aer"
       /\ arg' = [target_lat |-> cfg.turret_lat + n, target_lon |-> cfg.turret_lon + e,
                  target_alt_m |-> cfg.turret_alt_m + u]
       /\ ret' = [raised |-> "none",
                  value |-> geodetic_to_aer(cfg, cfg.turret_lat + n, cfg.turret_lon + e,
                                            cfg.turret_alt_m + u)]
  /\ UNCHANGED <<cfg, pc, files, outcome, convert_defined>>

CalculateAngularUncertainty ==
  /\ op = "idle"
  /\ \E r \in Ranges, s \in Uncertainties, numeric \in {"float", "float64"} :
       /\ op' = "calculate_angular_uncertainty"
       /\ arg' = [range_m |-> r, range_uncertainty_m |-> s, numeric |-> numeric]
       /\ ret' = calculate_angular_uncertainty(r, s, numeric)
  /\ UNCHANGED <<cfg, pc, files, outcome, convert_defined>>

GenerateSpiralSearchPattern ==
  /\ op = "idle"
  /\ \E p \in CenterPans, t \in CenterTilts, r \in SearchRadii, k \in NumPoints :
       /\ op' = "generate_spiral_search_pattern"
       /\ arg' = [center_pan_deg |-> Fin(p), center_tilt_deg |-> Fin(t),
                  search_radius_deg |-> r, num_points |-> k]
       /\ ret' = generate_spiral_search_pattern(Fin(p), Fin(t), r, k)
  /\ UNCHANGED <<cfg, pc, files, outcome, convert_defined>>

RadarTrackToTurretCommand ==
  /\ op = "idle"
  /\ \E track \in RadarTracks(cfg) :
       /\ op' = "radar_track_to_turret_command"
       /\ arg' = [radar_track |-> track]
       /\ ret' = radar_track_to_turret_command(cfg, track)
  /\ UNCHANGED <<cfg, pc, files, outcome, convert_defined>>

NextSlew ==
  \/ EnuToAer \/ RadarEnuToAer \/ GeodeticToAer \/ CalculateAngularUncertainty
  \/ GenerateSpiralSearchPattern \/ RadarTrackToTurretCommand \/ Return

SpecSlew == InitSlew /\ [][NextSlew]_vars

(***************************************************************************)
(* Start-up: construction of the pipeline objects from the calibration     *)
(* file.  files holds the calibration file on disk (None when there is no  *)
(* such file, otherwise the parsed JSON object) and cfg the objects built  *)
(* so far: the ROI gate (its dx, dy, full_resolution, default_roi_size),   *)
(* a stand-alone polarimetry simulator (its calibration attribute) and the *)
(* fusion pipeline (the two objects it owns).                              *)
(***************************************************************************)
\* calibration[key]: KeyError when the key is absent
HasKeys(d, keys) == keys \subseteq DOMAIN d

\* ROIGatingModule._load_calibration
_load_calibration(calibration_file) ==
  IF IsNone(calibration_file) THEN Raise("FileNotFoundError", <<>>)
  ELSE [raised |-> "none", value |-> Get(calibration_file)]

\* ROIGatingModule.__init__
ROIGatingModule(calibration_file) ==
  LET calibration == _load_calibration(calibration_file)
  IN IF calibration.raised # "none" THEN calibration
     ELSE LET d == calibration.value
          IN IF ~HasKeys(d, {"boresight_offset_pixels"}) THEN Raise("KeyError", <<>>)
             ELSE IF ~HasKeys(d.boresight_offset_pixels, {"dx"}) THEN Raise("KeyError", <<>>)
             ELSE IF ~HasKeys(d.boresight_offset_pixels, {"dy"}) THEN Raise("KeyError", <<>>)
             ELSE IF ~HasKeys(d, {"sensor_intrinsics"}) THEN Raise("KeyError", <<>>)
             ELSE IF ~HasKeys(d.sensor_intrinsics, {"polarimetric_resolution"})
                  THEN Raise("KeyError", <<>>)
             ELSE IF ~HasKeys(d, {"roi_processing"}) THEN Raise("KeyError", <<>>)
             ELSE IF ~HasKeys(d.roi_processing, {"default_roi_size"})
                  THEN Raise("KeyError", <<>>)
             ELSE [raised |-> "none",
                   value |-> [dx |-> d.boresight_offset_pixels.dx,
                              dy |-> d.boresight_offset_pixels.dy,
                              full_resolution |-> d.sensor_intrinsics.polarimetric_resolution,
                              default_roi_size |-> d.roi_processing.default_roi_size]]

\* PolarimetrySimulator.__init__ and its _load_calibration: calibration_file is
\* None (stand-alone mode) or Some(the file on disk); a named file that does
\* not exist is logged as a warning and the calibration attribute is None
PolarimetrySimulator(calibration_file) ==
  [raised |-> "none",
   value |-> [calibration |-> IF IsNone(calibration_file) THEN None
                              ELSE Get(calibration_file)]]

\* ThermalPolarimetricFusion.__init__
ThermalPolarimetricFusion(calibration_file) ==
  LET roi_gater == ROIGatingModule(calibration_file)
  IN IF roi_gater.raised # "none" THEN roi_gater
     ELSE [raised |-> "none",
           value |-> [roi_gater |-> roi_gater.value,
                      polarimetry_sim |-> PolarimetrySimulator(None).value]]

\* the JSON object of a complete calibration file
CalibrationJson(c) ==
  [boresight_offset_pixels |-> [dx |-> c.dx, dy |-> c.dy],
   sensor_intrinsics |-> [polarimetric_resolution |-> c.full_resolution],
   roi_processing |-> [default_roi_size |-> c.default_roi_size]]

\* d without the key k
Without(d, k) == [x \in DOMAIN d \ {k} |-> d[x]]

\* the calibration file: absent, complete, lacking one section, or lacking
\* one entry of a section
CalibrationFiles ==
  {None}
  \cup { Some(CalibrationJson(c)) : c \in Calibrations }
  \cup { Some(Without(CalibrationJson(c), k)) :
           c \in Calibrations,
           k \in {"boresight_offset_pixels", "sensor_intrinsics", "roi_processing"} }
  \cup { Some([CalibrationJson(c) EXCEPT !.boresight_offset_pixels = [dx |-> c.dx]]) :
           c \in Calibrations }
  \cup { Some([CalibrationJson(c) EXCEPT !.roi_processing = [max_roi_size |-> 4]]) :
           c \in Calibrations }

NoObjects == [roi_gater |-> None, polarimetry_sim |-> None, fusion |-> None]

InitStartup ==
  /\ files \in CalibrationFiles
  /\ cfg = NoObjects
  /\ op = "idle"
  /\ arg = [none |-> TRUE]
  /\ ret = [raised |-> "none"]
  /\ pc = "idle"
  /\ outcome = <<>>
  /\ convert_defined = FALSE

\* the object a constructor call leaves behind: none when it raised
Built(result) == IF result.raised = "none" THEN Some(result.value) ELSE None

ConstructRoiGatingModule ==
  /\ op = "idle"
  /\ LET result == ROIGatingModule(files)
     IN /\ op' = "ROIGatingModule"
        /\ arg' = [calibration_file |-> files]
        /\ ret' = result
        /\ cfg' = [cfg EXCEPT !.roi_gater = Built(result)]
  /\ UNCHANGED <<pc, files, outcome, convert_defined>>

\* named: a calibration_file argument is passed
ConstructPolarimetrySimulator ==
  /\ op = "idle"
  /\ \E named \in BOOLEAN :
       LET result == PolarimetrySimulator(IF named THEN files ELSE None)
       IN /\ op' = "PolarimetrySimulator"
          /\ arg' = [calibration_file |-> IF named THEN Some(files) ELSE None]
          /\ ret' = result
          /\ cfg' = [cfg EXCEPT !.polarimetry_sim = Built(result)]
  /\ UNCHANGED <<pc, files, outcome, convert_defined>>

ConstructThermalPolarimetricFusion ==
  /\ op = "idle"
  /\ LET result == ThermalPolarimetricFusion(files)
     IN /\ op' = "ThermalPolarimetricFusion"
        /\ arg' = [calibration_file |-> files]
        /\ ret' = result
        /\ cfg' = [cfg EXCEPT !.fusion = Built(result)]
  /\ UNCHANGED <<pc, files, outcome, convert_defined>>

\* the ROI gates that exist: the stand-alone one and the pipeline's
RoiGaters ==
  (IF IsNone(cfg.roi_gater) THEN {} ELSE {Get(cfg.roi_gater)})
  \cup (IF IsNone(cfg.fusion) THEN {} ELSE {Get(cfg.fusion).roi_gater})

\* the simulators that exist: the stand-alone one and the pipeline's
PolarimetrySimulators ==
  (IF IsNone(cfg.polarimetry_sim) THEN {} ELSE {Get(cfg.polarimetry_sim)})
  \cup (IF IsNone(cfg.fusion) THEN {} ELSE {Get(cfg.fusion).polarimetry_sim})

GaterExtractRoi ==
  /\ op = "idle"
  /\ \E self \in RoiGaters, img \in TestImages, s \in RoiSizes :
       \E x \in {-Reach, 1, img.shape[2] + Reach}, y \in {0, img.shape[1]} :
         /\ op' = "extract_roi"
         /\ arg' = [self |-> self, full_image |-> img, roi_center_x |-> x,
                    roi_center_y |-> y, roi_size |-> s]
         /\ ret' = extract_roi(self, img, x, y, s)
  /\ UNCHANGED <<cfg, pc, files, outcome, convert_defined>>

SimulatorClassifyTarget ==
  /\ op = "idle"
  /\ \E self \in PolarimetrySimulators, m \in DolpMaps, masks \in MaskPairs :
       /\ op' = "classify_target"
       /\ arg' = [self |-> self, dolp_map |-> m, target_mask |-> masks[1],
                  background_mask |-> masks[2]]
       /\ ret' = classify_target(m, masks[1], masks[2])
  /\ UNCHANGED <<cfg, pc, files, outcome, convert_defined>>

FusionProcessThermalDetection ==
  /\ op = "idle"
  /\ ~IsNone(cfg.fusion)
  /\ \E d \in DetectionRecords, s \in FusionRoiSizes :
       /\ op' = "process_thermal_detection"
       /\ arg' = [self |-> Get(cfg.fusion), thermal_data |-> d,
                  full_polarimetric_image |-> None, roi_size |-> s]
       /\ ret' = process_thermal_detection(Get(cfg.fusion).roi_gater, d, None, s, 0)
  /\ UNCHANGED <<cfg, pc, files, outcome, convert_defined>>

NextStartup ==
  \/ ConstructRoiGatingModule \/ ConstructPolarimetrySimulator
  \/ ConstructThermalPolarimetricFusion \/ GaterExtractRoi
  \/ SimulatorClassifyTarget \/ FusionProcessThermalDetection \/ Return

SpecStartup == InitStartup /\ [][NextStartup]_vars

(***************************************************************************)
(* Frame: what a call leaves behind in the objects it was given.           *)
(*                                                                         *)
(* cfg is the configuration of the three objects together (the ROI gate's  *)
(* calibration fields, the classifier's thresholds, the controller's       *)
(* origin and limits).  A call is given its arguments in arg.passed; the   *)
(* caller's objects as they are when the call ends are arg.after.          *)
(***************************************************************************)
\* PolarimetrySimulator.__init__: the thresholds of the decision tree
Thresholds ==
  [DRONE_DOLP_HIGH |-> DRONE_DOLP_HIGH, DRONE_DOLP_MED |-> DRONE_DOLP_MED,
   AMBIGUOUS_DOLP |-> AMBIGUOUS_DOLP, BIRD_DOLP_MED |-> BIRD_DOLP_MED,
   MIN_CONTRAST_RATIO |-> MIN_CONTRAST_RATIO]

\* the fields of two records side by side
Merge(a, b) ==
  [k \in DOMAIN a \cup DOMAIN b |-> IF k \in DOMAIN a THEN a[k] ELSE b[k]]

Configurations ==
  { Merge(Merge(cal, Thresholds), ctl) : cal \in Calibrations, ctl \in Controllers }

\* every statement of the six methods and of the methods they call that
\* writes into an existing object (item or slice assignment, append): the
\* method, the variable written through, and the object that variable is
\* bound to, "local" for an object created during the call
InPlaceWrites_into_full_image(method) ==
  CASE method = "process_thermal_cue" ->
         { [to |-> "roi_metadata", object |-> "local"] }
    [] method = "process_thermal_detection" ->
         { [to |-> "rgb_image", object |-> "local"],
           [to |-> "dolp_map", object |-> "local"],
           [to |-> "roi_target_mask", object |-> "local"] }
    [] method = "radar_track_to_turret_command" ->
         { [to |-> "search_points", object |-> "local"] }
    [] method = "extract_roi" ->
         { [to |-> "roi_crop", object |-> "full_image"] }
    [] OTHER -> {}

InPlaceWrites(method) ==
  CASE method = "process_thermal_cue" ->
         { [to |-> "roi_metadata", object |-> "local"] }
    [] method = "process_thermal_detection" ->
         { [to |-> "rgb_image", object |-> "local"],
           [to |-> "dolp_map", object |-> "local"],
           [to |-> "roi_target_mask", object |-> "local"] }
    [] method = "radar_track_to_turret_command" ->
         { [to |-> "search_points", object |-> "local"] }
    [] OTHER -> {}

\* the attributes of self a method assigns outside __init__
AttributeWrites(method) == {}

\* an object after a write through one of its aliases
Written(value) == [written |-> TRUE, was |-> value]

\* the caller's objects when the call ends
AfterCall(method, passed) ==
  LET objects == { w.object : w \in InPlaceWrites(method) }
  IN [k \in DOMAIN passed |-> IF k \in objects THEN Written(passed[k]) ELSE passed[k]]

\* self when the call ends
SelfAfterCall(method, self) ==
  [k \in DOMAIN self |-> IF k \in AttributeWrites(method) THEN Written(self[k]) ELSE self[k]]

InitFrame ==
  /\ cfg \in Configurations
  /\ op = "idle"
  /\ arg = [none |-> TRUE]
  /\ ret = [raised |-> "none"]
  /\ pc = "idle"
  /\ files = <<>>
  /\ outcome = <<>>
  /\ convert_defined = FALSE

\* one call: the arguments as passed and as left, the result, and self
Call(method, passed, result) ==
  /\ op' = method
  /\ arg' = [passed |-> passed, after |-> AfterCall(method, passed)]
  /\ ret' = result
  /\ cfg' = SelfAfterCall(method, cfg)
  /\ UNCHANGED <<pc, files, outcome, convert_defined>>

FrameApplyParallax ==
  /\ op = "idle"
  /\ \E x \in {-Reach, 0, Reach}, y \in {-Reach, 1} :
       Call("apply_parallax_correction", [thermal_x |-> x, thermal_y |-> y],
            [raised |-> "none", value |-> apply_parallax_correction(cfg, x, y)])

FrameExtractRoi ==
  /\ op = "idle"
  /\ \E img \in TestImages, s \in RoiSizes :
       \E x \in {-Reach, 1, img.shape[2] + Reach}, y \in {0, img.shape[1]} :
         Call("extract_roi",
              [full_image |-> img, roi_center_x |-> x, roi_center_y |-> y, roi_size |-> s],
              extract_roi(cfg, img, x, y, s))

FrameProcessThermalCue ==
  /\ op = "idle"
  /\ \E img \in TestImages, t \in TurretCommands, s \in {None, Some(MaxRoi)} :
       Call("process_thermal_cue",
            [full_image |-> img, turret_command |-> t, roi_size |-> s],
            process_thermal_cue(cfg, img, t, s))

FrameClassifyTarget ==
  /\ op = "idle"
  /\ \E m \in DolpMaps, masks \in MaskPairs :
       Call("classify_target",
            [dolp_map |-> m, target_mask |-> masks[1], background_mask |-> masks[2]],
            classify_target(m, masks[1], masks[2]))

FrameProcessThermalDetection ==
  /\ op = "idle"
  /\ \E d \in DetectionRecords, img \in {None} \cup { Some(i) : i \in SuppliedImages },
        s \in FusionRoiSizes :
       Call("process_thermal_detection",
            [thermal_data |-> d, full_polarimetric_image |-> img, roi_size |-> s],
            process_thermal_detection(cfg, d, img, s, 0))

FrameRadarTrackToTurretCommand ==
  /\ op = "idle"
  /\ \E track \in RadarTracks(cfg) :
       Call("radar_track_to_turret_command", [radar_track |-> track],
            radar_track_to_turret_command(cfg, track))

NextFrame ==
  \/ FrameApplyParallax \/ FrameExtractRoi \/ FrameProcessThermalCue
  \/ FrameClassifyTarget \/ FrameProcessThermalDetection
  \/ FrameRadarTrackToTurretCommand \/ Return

SpecFrame == InitFrame /\ [][NextFrame]_vars

(***************************************************************************)
(* Repetition: the same request made twice, with other calls in between.   *)
(* outcome remembers one earlier call (its name, arguments and result).    *)
(***************************************************************************)
\* the targets a detection record can start with
FirstTargets ==
  { [target_id |-> "T1", centroid |-> <<16, 13>>, classification |-> "drone"],
    [target_id |-> "T2", centroid |-> <<3, 2>>, classification |-> "bird"] }

\* the targets that may follow the first one in a record
OtherTargets ==
  { <<>>,
    <<[target_id |-> "T4", centroid |-> <<-Reach, 1>>],
      [target_id |-> "T3", centroid |-> <<20, 20>>, classification |-> "bird"]>> }

RepeatRecords ==
  { [targets |-> <<first>> \o others] : first \in FirstTargets, others \in OtherTargets }
  \cup { [targets |-> others] : others \in OtherTargets }

RepeatImages ==
  { SceneImage(SceneDim, SceneDim, l[1], l[2]) : l \in {<<101, 10>>, <<22, 25>>} }

\* datetime.now() at the moment a turret command is built
Clock == {1, 2}

RepeatTracks(c) ==
  { [target_id |-> "TRK001", latitude |-> c.turret_lat + n, longitude |-> c.turret_lon + e,
     altitude_m |-> c.turret_alt_m + 100, uncertainty_m |-> 10] :
      n \in {0, 1000}, e \in {-2, 0} }
  \cup { [latitude |-> c.turret_lat + 1000, longitude |-> c.turret_lon,
          altitude_m |-> c.turret_alt_m + 100],
         [target_id |-> "TRK003", latitude |-> c.turret_lat + 1000] }

\* the turret command with its 'timestamp' entry
Stamped(result, now) ==
  IF result.raised = "none"
  THEN [result EXCEPT !.value = Merge([timestamp |-> now], result.value)]
  ELSE result

InitRepeat ==
  /\ cfg \in Configurations
  /\ op = "idle"
  /\ arg = [none |-> TRUE]
  /\ ret = [raised |-> "none"]
  /\ pc = "idle"
  /\ files = <<>>
  /\ outcome = <<>>
  /\ convert_defined = FALSE

\* with a supplied image the synthetic scene, and so its noise, is not used
RepeatProcessThermalDetection ==
  /\ op = "idle"
  /\ \E d \in RepeatRecords, img \in {None} \cup { Some(i) : i \in RepeatImages },
        s \in {MaxRoi, 28}, noise \in {0, 60} :
       /\ IsNone(img) \/ noise = 0
       /\ op' = "process_thermal_detection"
       /\ arg' = [thermal_data |-> d, full_polarimetric_image |-> img, roi_size |-> s]
       /\ ret' = process_thermal_detection(cfg, d, img, s, noise)
  /\ UNCHANGED <<cfg, pc, files, outcome, convert_defined>>

RepeatRadarTrackToTurretCommand ==
  /\ op = "idle"
  /\ \E track \in RepeatTracks(cfg), now \in Clock :
       /\ op' = "radar_track_to_turret_command"
       /\ arg' = [radar_track |-> track]
       /\ ret' = Stamped(radar_track_to_turret_command(cfg, track), now)
  /\ UNCHANGED <<cfg, pc, files, outcome, convert_defined>>

\* the caller takes the result and keeps it for a later comparison
ReturnAndRemember ==
  /\ op # "idle"
  /\ outcome' = <<[op |-> op, arg |-> arg, ret |-> ret]>>
  /\ op' = "idle"
  /\ arg' = [none |-> TRUE]
  /\ ret' = [raised |-> "none"]
  /\ UNCHANGED <<cfg, pc, files, convert_defined>>

NextRepeat ==
  \/ RepeatProcessThermalDetection \/ RepeatRadarTrackToTurretCommand
  \/ ReturnAndRemember \/ Return

SpecRepeat == InitRepeat /\ [][NextRepeat]_vars

(***************************************************************************)
(* Properties                                                              *)
(***************************************************************************)
\* what the last extract_roi call was asked for
RequestedSize ==
  IF IsNone(arg.roi_size) THEN cfg.default_roi_size ELSE Get(arg.roi_size)
WindowLo(center) == center - RequestedSize \div 2
WindowHi(center) == center + RequestedSize \div 2
ExtractRoiReturned == op = "extract_roi" /\ ret.raised = "none"

\* C1: the crop extract_roi returns has first two dimensions exactly
\* (roi_size, roi_size), for every center (inside, near an edge, outside the
\* image) and every size (even or odd), and keeps the channel dimension.
C1_CropHasRequestedShape ==
  ExtractRoiReturned =>
    /\ ret.roi.shape[1] = RequestedSize
    /\ ret.roi.shape[2] = RequestedSize
    /\ Len(ret.roi.shape) = Len(arg.full_image.shape)
    /\ Len(ret.roi.shape) = 3 => ret.roi.shape[3] = arg.full_image.shape[3]

\* the means and the verdict of the last classify_target call
TargetMean == MaskedMean(arg.dolp_map, arg.target_mask)
BackgroundMean == MaskedMean(arg.dolp_map, arg.background_mask)
ClassifyReturned == op = "classify_target" /\ ret.raised = "none"
Returned(l, c, v) ==
  ret.classification = l /\ ret.confidence = c /\ ret.veto_decision = v
EnoughContrast == ~FracLt(ret.metrics.contrast_ratio, MIN_CONTRAST_RATIO)

\* C2: classify_target returns the result of the ordered tree: contrast < 2.0
\* gives UNKNOWN/LOW/INSUFFICIENT_CONTRAST whatever the target mean; else
\* > 0.10 DRONE/HIGH/CONFIRM; else >= 0.08 DRONE/MEDIUM/CONFIRM; else >= 0.05
\* UNKNOWN/LOW/REQUIRE_FUSION; else >= 0.03 BIRD/MEDIUM/REJECT; else
\* BIRD/HIGH/REJECT. A mean below 0.08 is never DRONE/MEDIUM/CONFIRM, and
\* 0.08, 0.05 and 0.03 fall in the upper branch.
C2_OrderedDecisionTree ==
  ClassifyReturned =>
    LET t == TargetMean
    IN /\ ~EnoughContrast => Returned("UNKNOWN", "LOW", "INSUFFICIENT_CONTRAST")
       /\ (EnoughContrast /\ FracGt(t, DRONE_DOLP_HIGH))
            => Returned("DRONE", "HIGH", "CONFIRM")
       /\ (EnoughContrast /\ ~FracGt(t, DRONE_DOLP_HIGH) /\ FracGe(t, DRONE_DOLP_MED))
            => Returned("DRONE", "MEDIUM", "CONFIRM")
       /\ (EnoughContrast /\ ~FracGe(t, DRONE_DOLP_MED) /\ FracGe(t, AMBIGUOUS_DOLP))
            => Returned("UNKNOWN", "LOW", "REQUIRE_FUSION")
       /\ (EnoughContrast /\ ~FracGe(t, AMBIGUOUS_DOLP) /\ FracGe(t, BIRD_DOLP_MED))
            => Returned("BIRD", "MEDIUM", "REJECT")
       /\ (EnoughContrast /\ ~FracGe(t, BIRD_DOLP_MED))
            => Returned("BIRD", "HIGH", "REJECT")
       /\ FracLt(t, DRONE_DOLP_MED) => ~Returned("DRONE", "MEDIUM", "CONFIRM")
       /\ (EnoughContrast /\ FracEq(t, DRONE_DOLP_MED))
            => Returned("DRONE", "MEDIUM", "CONFIRM")
       /\ (EnoughContrast /\ FracEq(t, AMBIGUOUS_DOLP))
            => Returned("UNKNOWN", "LOW", "REQUIRE_FUSION")
       /\ (EnoughContrast /\ FracEq(t, BIRD_DOLP_MED))
            => Returned("BIRD", "MEDIUM", "REJECT")

\* a target mean just below 0.08 with enough contrast falls to REQUIRE_FUSION
C2_Witness ==
  /\ ClassifyReturned /\ EnoughContrast
  /\ FracLt(TargetMean, DRONE_DOLP_MED) /\ FracGt(TargetMean, DRONE_DOLP_MED - 2)
  /\ Returned("UNKNOWN", "LOW", "REQUIRE_FUSION")

AtHighThreshold ==
  ClassifyReturned /\ FracEq(TargetMean, DRONE_DOLP_HIGH) /\ EnoughContrast

\* C3 as stated: a target mean of exactly 0.10 with contrast >= 2.0 gives
\* DRONE / HIGH / CONFIRM.
C3_ExactHighIsHigh == AtHighThreshold => Returned("DRONE", "HIGH", "CONFIRM")

\* C3 amended: a target mean of exactly 0.10 with contrast >= 2.0 gives
\* DRONE / MEDIUM / CONFIRM; HIGH needs a mean strictly above 0.10.
C3_ExactHighIsMedium ==
  /\ AtHighThreshold => Returned("DRONE", "MEDIUM", "CONFIRM")
  /\ (ClassifyReturned /\ Returned("DRONE", "HIGH", "CONFIRM"))
       => FracGt(TargetMean, DRONE_DOLP_HIGH)

C3_Witness == AtHighThreshold

BackgroundNotPositive ==
  /\ op = "classify_target"
  /\ MaskMatches(arg.dolp_map, arg.target_mask)
  /\ MaskMatches(arg.dolp_map, arg.background_mask)
  /\ ~IsNaN(BackgroundMean) /\ ~FracGt(BackgroundMean, 0)

\* C4: with a background mean of 0 or less, classify_target raises nothing,
\* reports contrast_ratio 0 and returns UNKNOWN / LOW / INSUFFICIENT_CONTRAST,
\* for every target mean.
C4_ZeroBackground ==
  BackgroundNotPositive =>
    /\ ret.raised = "none"
    /\ ret.metrics.contrast_ratio = [n |-> 0, d |-> 1]
    /\ Returned("UNKNOWN", "LOW", "INSUFFICIENT_CONTRAST")

\* a target far above the HIGH threshold over a zero background
C4_Witness ==
  /\ BackgroundNotPositive /\ FracEq(BackgroundMean, 0)
  /\ FracGt(TargetMean, DRONE_DOLP_HIGH)
  /\ Returned("UNKNOWN", "LOW", "INSUFFICIENT_CONTRAST")

\* C5: the contrast_ratio in the metrics of every classification result is
\* >= 0, for every signal map and every pair of masks.
C5_ContrastNonNegative ==
  ClassifyReturned => FracGe(ret.metrics.contrast_ratio, 0)

\* rows (or columns) lo..hi-1 of the requested window that lie below 0 / at or
\* beyond n
BeyondLow(lo, hi) == Cardinality({ k \in lo..(hi - 1) : k < 0 })
BeyondHigh(lo, hi, n) == Cardinality({ k \in lo..(hi - 1) : k >= n })

\* C6: padding_applied is true exactly when the requested window extends
\* past an image edge, and then the pad amount of each edge is the number of
\* window rows / columns beyond that edge; inside the image no pad amounts
\* are reported.
C6_PadAmountsPerEdge ==
  ExtractRoiReturned =>
    LET height == arg.full_image.shape[1]
        width == arg.full_image.shape[2]
        x_lo == WindowLo(arg.roi_center_x)
        x_hi == WindowHi(arg.roi_center_x)
        y_lo == WindowLo(arg.roi_center_y)
        y_hi == WindowHi(arg.roi_center_y)
        bh == ret.metadata.boundary_handling
    IN /\ bh.padding_applied
            = (x_lo < 0 \/ x_hi > width \/ y_lo < 0 \/ y_hi > height)
       /\ ~bh.padding_applied => IsNone(bh.pad_amounts)
       /\ bh.padding_applied =>
            /\ ~IsNone(bh.pad_amounts)
            /\ Get(bh.pad_amounts).top = BeyondLow(y_lo, y_hi)
            /\ Get(bh.pad_amounts).bottom = BeyondHigh(y_lo, y_hi, height)
            /\ Get(bh.pad_amounts).left = BeyondLow(x_lo, x_hi)
            /\ Get(bh.pad_amounts).right = BeyondHigh(x_lo, x_hi, width)

\* C8: apply_parallax_correction returns exactly (x + dx, y + dy) for every
\* integer (x, y), negative and out-of-frame ones included, without clamping
\* or raising, and leaves dx and dy as they were.
C8_PureParallax ==
  [][op' = "apply_parallax_correction" =>
       /\ ret'.raised = "none"
       /\ ret'.value = <<arg'.thermal_x + cfg.dx, arg'.thermal_y + cfg.dy>>
       /\ cfg'.dx = cfg.dx /\ cfg'.dy = cfg.dy]_vars

\* a corrected coordinate that is negative on one axis
C8_Witness ==
  /\ op = "apply_parallax_correction"
  /\ ret.value[1] < 0 /\ ret.value[2] >= 0
  /\ ret.value = <<arg.thermal_x + cfg.dx, arg.thermal_y + cfg.dy>>

\* the last process_thermal_detection call: its record's first target, the
\* parallax-corrected center and the window the crop step is asked for
FusionCalled == op = "process_thermal_detection"
ValidDetection ==
  /\ "targets" \in DOMAIN arg.thermal_data
  /\ Len(arg.thermal_data.targets) > 0
  /\ {"centroid", "target_id"} \subseteq DOMAIN arg.thermal_data.targets[1]
FusionCenter ==
  LET ctr == arg.thermal_data.targets[1].centroid
  IN <<ctr[1] + cfg.dx, ctr[2] + cfg.dy>>
\* the window [center - size/2, center + size/2) leaves an h x w image
LeavesImage(cx, cy, size, h, w) ==
  \/ cx - size \div 2 < 0 \/ cx + size \div 2 > w
  \/ cy - size \div 2 < 0 \/ cy + size \div 2 > h
FusionAtEdge ==
  /\ FusionCalled /\ ValidDetection /\ ~IsNone(arg.full_polarimetric_image)
  /\ LeavesImage(FusionCenter[1], FusionCenter[2], arg.roi_size,
                 Get(arg.full_polarimetric_image).shape[1],
                 Get(arg.full_polarimetric_image).shape[2])

\* C7: a ROI request near or beyond an image edge is never an error:
\* extract_roi returns a crop with padding_applied = true, and
\* process_thermal_detection with a supplied image and such a centroid
\* returns a FusionDecision instead of raising.
C7_EdgeIsNeverAnError ==
  /\ (op = "extract_roi" /\
        LeavesImage(arg.roi_center_x, arg.roi_center_y, RequestedSize,
                    arg.full_image.shape[1], arg.full_image.shape[2]))
       => (ret.raised = "none" /\ ret.metadata.boundary_handling.padding_applied)
  /\ FusionAtEdge => ret.raised = "none"

\* C9: the action of every FusionDecision is decided by the veto alone
\* (CONFIRM: track as drone, REJECT: discard as biological, anything else:
\* defer), and material_type, confidence and veto are the classifier's
\* classification, confidence and veto_decision.
C9_ActionFromVeto ==
  (FusionCalled /\ ret.raised = "none") =>
    LET fd == ret.fusion_decision
        cl == ret.polarimetric_classification
    IN /\ fd.veto \in {"CONFIRM", "REJECT", "REQUIRE_FUSION", "INSUFFICIENT_CONTRAST"}
       /\ fd.veto = "CONFIRM" => fd.action = "TRACK_AS_DRONE"
       /\ fd.veto = "REJECT" => fd.action = "DISCARD_AS_BIOLOGICAL"
       /\ fd.veto \in {"REQUIRE_FUSION", "INSUFFICIENT_CONTRAST"}
            => fd.action = "DEFER_TO_RADAR"
       /\ fd.material_type = cl.classification
       /\ fd.confidence = cl.confidence
       /\ fd.veto = cl.veto_decision

\* a rejected target is discarded as biological
C9_Witness ==
  /\ FusionCalled /\ ret.raised = "none"
  /\ ret.fusion_decision.veto = "REJECT"
  /\ ret.fusion_decision.action = "DISCARD_AS_BIOLOGICAL"
  /\ ret.fusion_decision.material_type = "BIRD"

\* C10: after a detection fails, the orchestrator reports it as skipped or
\* failed and still processes every later detection: when the run is over,
\* no detection that follows a failed one is left unprocessed.
C10_LaterDetectionsProcessed ==
  pc \in {"done", "crashed"} =>
    \A i \in 1..2 : \A j \in (i + 1)..2 :
      (outcome[i].status = "raised" /\ ~IsNone(files[j]))
        => outcome[j].status # "pending"
FirstTargetUnusable ==
  \/ "targets" \notin DOMAIN arg.thermal_data
  \/ Len(arg.thermal_data.targets) = 0
  \/ "centroid" \notin DOMAIN arg.thermal_data.targets[1]

CueWithoutPixel ==
  LET coords == DictGet(DictGet(arg.turret_command, "turret_command"), "target_pixel")
  IN "u" \notin DOMAIN coords \/ "v" \notin DOMAIN coords

Rejected ==
  /\ ret.raised \in {"ValueError", "KeyError"}
  /\ ret.calls = <<>>
  /\ DOMAIN ret = {"raised", "calls"}

\* C11: a detection record without targets, with an empty target list or
\* whose first target has no centroid makes process_thermal_detection raise
\* before any pipeline stage and return no decision; process_thermal_cue
\* raises in the same way when target_pixel u or v is missing.
C11_InvalidDetectionRejected ==
  /\ (FusionCalled /\ FirstTargetUnusable) => Rejected
  /\ (op = "process_thermal_cue" /\ CueWithoutPixel) =>
       (Rejected /\ ret.raised = "ValueError")

C11_Witness ==
  /\ FusionCalled
  /\ "targets" \in DOMAIN arg.thermal_data
  /\ Len(arg.thermal_data.targets) > 0
  /\ "centroid" \notin DOMAIN arg.thermal_data.targets[1]
  /\ ret.raised = "KeyError"

(***************************************************************************)
(* Properties of the slew-to-cue controller                                *)
(***************************************************************************)
Called(name) == op = name
Answered(name) == op = name /\ ret.raised = "none"
InRange(f, lo, hi) == FLe(Fin(lo), f) /\ FLe(f, Fin(hi))

TrackIsGeodetic ==
  {"latitude", "longitude", "altitude_m"} \subseteq DOMAIN arg.radar_track

TrackAtTurret ==
  /\ Called("radar_track_to_turret_command")
  /\ TrackIsGeodetic
  /\ arg.radar_track.latitude = cfg.turret_lat
  /\ arg.radar_track.longitude = cfg.turret_lon
  /\ arg.radar_track.altitude_m = cfg.turret_alt_m

\* C12: calculate_angular_uncertainty raises whenever range_m <= 0, and
\* radar_track_to_turret_command fails with that error for a track at the
\* turret's own position instead of returning a command.
C12_NonPositiveRangeRaises ==
  /\ (Called("calculate_angular_uncertainty") /\ arg.range_m <= 0) => ret.raised # "none"
  /\ TrackAtTurret => ret.raised # "none"

\* C13: the search radius of every returned turret command lies between 0.5
\* and 3.0 degrees, whatever the position and the uncertainty of the track.
C13_SearchRadiusClamped ==
  Answered("radar_track_to_turret_command") =>
    InRange(ret.value.search_radius_deg, SEARCH_MIN_RADIUS, MAX_SEARCH_RADIUS)

\* C14: every azimuth returned by enu_to_aer, geodetic_to_aer and the radar
\* simulator's _enu_to_aer is at least 0 and below 360, and every elevation
\* is between -90 and 90.
C14_AnglesNormalized ==
  (Answered("enu_to_aer") \/ Answered("geodetic_to_aer") \/ Answered("_enu_to_aer")) =>
    /\ FLe(Fin(0), ret.value.azimuth_deg)
    /\ FLt(ret.value.azimuth_deg, Fin(FULL_TURN))
    /\ InRange(ret.value.elevation_deg, -TILT_LIMIT, TILT_LIMIT)

PatternReturned ==
  /\ Answered("generate_spiral_search_pattern")
  /\ IsFin(arg.search_radius_deg)
  /\ arg.search_radius_deg.v >= 0

\* C15: every point of a returned search pattern, the first one included,
\* has its pan at least 0 and below 360 and its tilt between -90 and 90.
C15_PatternPointsNormalized ==
  PatternReturned =>
    \A k \in 1..Len(ret.value) :
      /\ FLe(Fin(0), ret.value[k][1])
      /\ FLt(ret.value[k][1], Fin(FULL_TURN))
      /\ InRange(ret.value[k][2], -TILT_LIMIT, TILT_LIMIT)

\* what rounding can move a point by: the spacing of the representable angles
\* at the largest pan of a pattern
Tolerance == Pow2(BitLen(Max(720000, FULL_TURN)) - FloatBits)

\* angular distance of a pattern point from the requested center: the pan
\* difference is taken the short way around the circle
PanApart(a, b) ==
  LET d == (a - b) % FULL_TURN
  IN Min(d, FULL_TURN - d)
RadialDistance(point) ==
  LET dp == PanApart(point[1].v, arg.center_pan_deg.v)
      dt == Abs(point[2].v - arg.center_tilt_deg.v)
  IN NpSqrt(dp * dp + dt * dt)

\* the radius the k-th spiral sample is generated at
SampleRadius(k) ==
  IF arg.num_points <= 1 THEN 0
  ELSE RoundDiv(arg.search_radius_deg.v * (k - 1), arg.num_points - 1)

ClearOfTiltLimits ==
  /\ arg.center_tilt_deg.v + arg.search_radius_deg.v <= TILT_LIMIT
  /\ arg.center_tilt_deg.v - arg.search_radius_deg.v >= -TILT_LIMIT

\* C16: a search pattern starts with the requested center, given back as it
\* was passed, followed by num_points spiral samples in generation order (the
\* k-th sample lies at the k-th radius of the spiral), num_points + 1 elements
\* in all; in a turret command the pattern has 21 elements and starts with
\* (pan_deg, tilt_deg).
C16_CenterFirstThenSamples ==
  /\ PatternReturned =>
       /\ Len(ret.value) = arg.num_points + 1
       /\ ret.value[1] = <<arg.center_pan_deg, arg.center_tilt_deg>>
       /\ ClearOfTiltLimits =>
            \A k \in 1..arg.num_points :
              Abs(RadialDistance(ret.value[k + 1]) - SampleRadius(k)) <= Tolerance
  /\ Answered("radar_track_to_turret_command") =>
       /\ Len(ret.value.search_pattern) = DEFAULT_NUM_POINTS + 1
       /\ ret.value.search_pattern[1] = <<ret.value.pan_deg, ret.value.tilt_deg>>

C16_Witness ==
  /\ PatternReturned
  /\ arg.num_points = DEFAULT_NUM_POINTS
  /\ arg.center_pan_deg.v < 0
  /\ arg.search_radius_deg.v = MAX_SEARCH_RADIUS
  /\ ClearOfTiltLimits

\* C17: along every search pattern the distance from the requested center
\* never decreases and never exceeds the cone radius, and the last point lies
\* at that radius, for every center and every radius >= 0.
C17_RadiiNonDecreasing ==
  (PatternReturned /\ arg.num_points >= 2) =>
    /\ \A k \in 1..(Len(ret.value) - 1) :
         RadialDistance(ret.value[k]) <= RadialDistance(ret.value[k + 1]) + Tolerance
    /\ \A k \in 1..Len(ret.value) :
         RadialDistance(ret.value[k]) <= arg.search_radius_deg.v + Tolerance
    /\ Abs(RadialDistance(ret.value[Len(ret.value)]) - arg.search_radius_deg.v) <= Tolerance

TrackIsDirect ==
  /\ Called("radar_track_to_turret_command")
  /\ {"azimuth_deg", "elevation_deg", "range_m"} \subseteq DOMAIN arg.radar_track
  /\ DOMAIN arg.radar_track \cap {"latitude", "longitude", "altitude_m"} = {}

\* C18: a radar track given only as azimuth_deg, elevation_deg and range_m is
\* accepted: a turret command is returned for it, pointing where the track
\* says.
C18_DirectTrackAccepted ==
  TrackIsDirect =>
    /\ ret.raised = "none"
    /\ ret.value.pan_deg = arg.radar_track.azimuth_deg
    /\ ret.value.tilt_deg = arg.radar_track.elevation_deg
    /\ ret.value.radar_range_m = arg.radar_track.range_m

TargetAtOrigin ==
  /\ Called("geodetic_to_aer")
  /\ arg.target_lat = cfg.turret_lat
  /\ arg.target_lon = cfg.turret_lon
  /\ arg.target_alt_m = cfg.turret_alt_m

\* C19: for a target at the turret's own latitude, longitude and altitude
\* geodetic_to_aer returns range 0, azimuth 0 and elevation 0.
C19_OriginIsZero ==
  TargetAtOrigin =>
    /\ ret.raised = "none"
    /\ ret.value = [azimuth_deg |-> Fin(0), elevation_deg |-> Fin(0), range_m |-> 0]

C19_Witness == TargetAtOrigin /\ cfg.turret_lat = LAT_60

(***************************************************************************)
(* Properties of start-up                                                  *)
(***************************************************************************)
\* the calibration file exists and has the three sections with their entries
ValidCalibrationFile ==
  /\ ~IsNone(files)
  /\ HasKeys(Get(files), {"boresight_offset_pixels", "sensor_intrinsics", "roi_processing"})
  /\ HasKeys(Get(files).boresight_offset_pixels, {"dx", "dy"})
  /\ HasKeys(Get(files).sensor_intrinsics, {"polarimetric_resolution"})
  /\ HasKeys(Get(files).roi_processing, {"default_roi_size"})

\* some object built so far read the calibration from a valid file
CalibrationLoaded ==
  /\ ValidCalibrationFile
  /\ \/ ~IsNone(cfg.roi_gater)
     \/ ~IsNone(cfg.fusion)
     \/ ~IsNone(cfg.polarimetry_sim) /\ ~IsNone(Get(cfg.polarimetry_sim).calibration)

PipelineStage == op \in {"extract_roi", "classify_target", "process_thermal_detection"}

\* C20: no ROI extraction, classification or fusion decision happens unless
\* the calibration was loaded successfully: ROIGatingModule and
\* ThermalPolarimetricFusion raise for a missing or incomplete calibration
\* file and leave no object behind, and a stage only runs on an object that
\* has been built after a calibration was loaded.
C20_NoStageBeforeCalibration ==
  /\ (op \in {"ROIGatingModule", "ThermalPolarimetricFusion"} /\ ~ValidCalibrationFile) =>
       /\ ret.raised \in {"FileNotFoundError", "KeyError"}
       /\ IsNone(cfg.roi_gater) /\ IsNone(cfg.fusion)
  /\ PipelineStage => CalibrationLoaded

HasFirstTarget(a) ==
  /\ "targets" \in DOMAIN a.thermal_data
  /\ Len(a.thermal_data.targets) > 0

\* the running call asks what the remembered call asked: the same first
\* target with the same supplied image and size, or the same radar track
SameRequestAsBefore ==
  /\ outcome # <<>>
  /\ op = outcome[1].op
  /\ \/ /\ op = "process_thermal_detection"
        /\ HasFirstTarget(arg) /\ HasFirstTarget(outcome[1].arg)
        /\ arg.thermal_data.targets[1] = outcome[1].arg.thermal_data.targets[1]
        /\ ~IsNone(arg.full_polarimetric_image)
        /\ arg.full_polarimetric_image = outcome[1].arg.full_polarimetric_image
        /\ arg.roi_size = outcome[1].arg.roi_size
     \/ /\ op = "radar_track_to_turret_command"
        /\ arg = outcome[1].arg

\* a result without its timestamp
Untimed(result) ==
  IF result.raised = "none" /\ "value" \in DOMAIN result
  THEN [result EXCEPT !.value = Without(result.value, "timestamp")]
  ELSE result

\* C22: a process_thermal_detection call decides for one target, the first of
\* the record, and its result depends only on that target, the supplied image
\* and the configuration: repeated with the same first target and image, after
\* any other calls and with any other targets in the record, it gives the
\* same result.  radar_track_to_turret_command repeated with the same track
\* gives the same command apart from the timestamp.
C22_SameRequestSameDecision ==
  /\ (op = "process_thermal_detection" /\ ret.raised = "none") =>
       ret.thermal_detection.target_id = arg.thermal_data.targets[1].target_id
  /\ SameRequestAsBefore => Untimed(ret) = Untimed(outcome[1].ret)

C22_Witness ==
  /\ SameRequestAsBefore
  /\ op = "process_thermal_detection"
  /\ ret.raised = "none"
  /\ Len(arg.thermal_data.targets) = 3
  /\ Len(outcome[1].arg.thermal_data.targets) = 1

(***************************************************************************)
(* Properties of the controller's geometry                                 *)
(***************************************************************************)
\* elevation is atan(up / north) within a hundredth of a degree (174
\* millionths of a radian): the vector (north, up) and the direction
\* (cos, sin) of the elevation, in ten-thousandths, are parallel
ElevationIsAtan(elevation_deg, up_m, north_m) ==
  LET cs == CosSin(1000 * elevation_deg.v)
      cross == north_m * cs[2] - up_m * cs[1]
      length == NpSqrt(north_m * north_m + up_m * up_m)
  IN /\ IsFin(elevation_deg)
     /\ Abs(cross) <= (174 * length) \div 100

NorthTrack ==
  /\ Answered("radar_track_to_turret_command")
  /\ arg.radar_track.latitude = cfg.turret_lat + 1000
  /\ arg.radar_track.longitude = cfg.turret_lon
  /\ arg.radar_track.altitude_m = cfg.turret_alt_m + 100

\* C23: a target displaced only north gets azimuth 0 and elevation
\* atan(up / north); a target displaced only east gets azimuth 90; the
\* command for a track 1000 m north of and 100 m above the turret has pan 0
\* and tilt 5.71 degrees within 0.01 degrees.
C23_CompassGeometry ==
  /\ (Answered("enu_to_aer") /\ arg.east_m = 0 /\ arg.north_m > 0) =>
       /\ ret.value.azimuth_deg = Fin(0)
       /\ ElevationIsAtan(ret.value.elevation_deg, arg.up_m, arg.north_m)
  /\ (Answered("enu_to_aer") /\ arg.east_m > 0 /\ arg.north_m = 0) =>
       ret.value.azimuth_deg = Fin(90000)
  /\ (Answered("geodetic_to_aer") /\ arg.target_lon = cfg.turret_lon
        /\ arg.target_lat > cfg.turret_lat) =>
       /\ ret.value.azimuth_deg = Fin(0)
       /\ ElevationIsAtan(ret.value.elevation_deg, arg.target_alt_m - cfg.turret_alt_m,
                          arg.target_lat - cfg.turret_lat)
  /\ (Answered("geodetic_to_aer") /\ arg.target_lon > cfg.turret_lon
        /\ arg.target_lat = cfg.turret_lat) =>
       ret.value.azimuth_deg = Fin(90000)
  /\ NorthTrack =>
       /\ ret.value.pan_deg = Fin(0)
       /\ IsFin(ret.value.tilt_deg)
       /\ Abs(ret.value.tilt_deg.v - 5710) <= 10

C23_Witness == NorthTrack /\ cfg.turret_lat = LAT_60

(***************************************************************************)
(* Properties of the crop's content and bounds                             *)
(***************************************************************************)
\* the size extract_roi works with
EffectiveSize == IF IsNone(arg.roi_size) THEN cfg.default_roi_size ELSE Get(arg.roi_size)

\* the image coordinate output position (i, j), counted from 0, stands for
SourceRow(i) == arg.roi_center_y - EffectiveSize \div 2 + i
SourceCol(j) == arg.roi_center_x - EffectiveSize \div 2 + j

InsideImage(y, x) ==
  /\ 0 <= y /\ y < arg.full_image.shape[1]
  /\ 0 <= x /\ x < arg.full_image.shape[2]

\* C24: every position (i, j) of a crop holds the source pixel at row
\* center_y - size/2 + i, column center_x - size/2 + j when that coordinate
\* is inside the image and the fill value 0 otherwise, so that top and left
\* pads come before the valid data and bottom and right pads after it.
C24_CropContent ==
  (op = "extract_roi" /\ ret.raised = "none") =>
    \A i \in 0..(ret.roi.shape[1] - 1) : \A j \in 0..(ret.roi.shape[2] - 1) :
      ret.roi.px[i + 1][j + 1] =
        IF InsideImage(SourceRow(i), SourceCol(j))
        THEN arg.full_image.px[SourceRow(i) + 1][SourceCol(j) + 1]
        ELSE FillPixel(arg.full_image.shape)

C24_Witness ==
  /\ op = "extract_roi" /\ ret.raised = "none"
  /\ Len(arg.full_image.shape) = 3
  /\ SourceRow(0) < 0 /\ SourceCol(0) < 0
  /\ InsideImage(SourceRow(ret.roi.shape[1] - 1), SourceCol(ret.roi.shape[2] - 1))

\* C25: the parallax correction comes before the crop.  In a fusion result
\* polarimetric_frame is thermal_frame plus the recorded boresight_offset,
\* and the roi_center of roi_extraction is that corrected coordinate, not the
\* thermal centroid; process_thermal_cue records the same in its metadata.
C25_CorrectionBeforeCrop ==
  /\ (op = "process_thermal_detection" /\ ret.raised = "none") =>
       LET m == ret.coordinate_mapping
           centroid == arg.thermal_data.targets[1].centroid
       IN /\ m.thermal_frame = [u |-> centroid[1], v |-> centroid[2]]
          /\ m.boresight_offset = [dx |-> cfg.dx, dy |-> cfg.dy]
          /\ m.polarimetric_frame = [u |-> m.thermal_frame.u + m.boresight_offset.dx,
                                     v |-> m.thermal_frame.v + m.boresight_offset.dy]
          /\ ret.roi_extraction.roi_location.roi_center =
               [x |-> m.polarimetric_frame.u, y |-> m.polarimetric_frame.v]
  /\ (op = "process_thermal_cue" /\ ret.raised = "none") =>
       LET g == ret.metadata.global_coordinates
           pixel == arg.turret_command.turret_command.target_pixel
       IN /\ g.thermal_x = pixel.u /\ g.thermal_y = pixel.v
          /\ g.polarimetric_x = pixel.u + cfg.dx
          /\ g.polarimetric_y = pixel.v + cfg.dy
          /\ ret.metadata.roi.roi_location.roi_center =
               [x |-> g.polarimetric_x, y |-> g.polarimetric_y]

C25_Witness ==
  /\ op = "process_thermal_detection" /\ ret.raised = "none"
  /\ cfg.dx # 0 /\ cfg.dy # 0
  /\ ret.roi_extraction.roi_location.roi_center.x
       # arg.thermal_data.targets[1].centroid[1]

\* the angles and range geodetic_to_aer gives for the track of the call
TrackAer ==
  geodetic_to_aer(cfg, arg.radar_track.latitude, arg.radar_track.longitude,
                  arg.radar_track.altitude_m)

\* the track of the call with an uncertainty of 10 m written into it
TrackWithTenMetres ==
  [k \in DOMAIN arg.radar_track \cup {"uncertainty_m"} |->
     IF k = "uncertainty_m" THEN 10 ELSE arg.radar_track[k]]

\* C26: in every turret command pan_deg and radar_azimuth_deg are the azimuth
\* computed from the track, tilt_deg and radar_elevation_deg its elevation,
\* radar_range_m its slant range, target_id the track's target_id or
\* 'UNKNOWN', and a track without uncertainty_m is treated as one with an
\* uncertainty of 10 m.
C26_CommandEchoesTrack ==
  Answered("radar_track_to_turret_command") =>
    /\ ret.value.pan_deg = TrackAer.azimuth_deg
    /\ ret.value.radar_azimuth_deg = TrackAer.azimuth_deg
    /\ ret.value.tilt_deg = TrackAer.elevation_deg
    /\ ret.value.radar_elevation_deg = TrackAer.elevation_deg
    /\ ret.value.radar_range_m = TrackAer.range_m
    /\ ret.value.target_id = IF "target_id" \in DOMAIN arg.radar_track
                             THEN arg.radar_track.target_id ELSE "UNKNOWN"
    /\ "uncertainty_m" \notin DOMAIN arg.radar_track =>
         ret.value = radar_track_to_turret_command(cfg, TrackWithTenMetres).value

C26_Witness ==
  /\ Answered("radar_track_to_turret_command")
  /\ "uncertainty_m" \notin DOMAIN arg.radar_track
  /\ ret.value.target_id = "UNKNOWN"
  /\ ret.value.radar_range_m > 0
  /\ FLt(Fin(SEARCH_MIN_RADIUS), ret.value.search_radius_deg)
  /\ FLt(ret.value.search_radius_deg, Fin(MAX_SEARCH_RADIUS))
  /\ FLt(Fin(0), ret.value.tilt_deg)

\* the track of the call moved north or south by n metres, and with another
\* uncertainty
TrackMoved(n) == [arg.radar_track EXCEPT !.latitude = cfg.turret_lat + n]
TrackWithUncertainty(s) == [arg.radar_track EXCEPT !.uncertainty_m = s]

CommandFor(track) == radar_track_to_turret_command(cfg, track).value

\* C27: for a fixed positive range error the angular uncertainty and the
\* clamped search radius do not grow when the (positive) range grows, and
\* for a fixed positive range they do not shrink when the error grows.
C27_UncertaintyMonotonic ==
  /\ (Answered("calculate_angular_uncertainty") /\ arg.range_m > 0
        /\ arg.range_uncertainty_m > 0) =>
       /\ \A r \in Ranges :
            r >= arg.range_m =>
              FLe(calculate_angular_uncertainty(r, arg.range_uncertainty_m,
                                                arg.numeric).value, ret.value)
       /\ \A s \in Uncertainties :
            s >= arg.range_uncertainty_m =>
              FLe(ret.value,
                  calculate_angular_uncertainty(arg.range_m, s, arg.numeric).value)
  /\ (Answered("radar_track_to_turret_command")
        /\ "uncertainty_m" \in DOMAIN arg.radar_track
        /\ arg.radar_track.uncertainty_m > 0 /\ ret.value.radar_range_m > 0) =>
       /\ \A n \in TrackOffsets :
            CommandFor(TrackMoved(n)).radar_range_m >= ret.value.radar_range_m =>
              FLe(CommandFor(TrackMoved(n)).search_radius_deg, ret.value.search_radius_deg)
       /\ \A s \in Uncertainties :
            s >= arg.radar_track.uncertainty_m =>
              FLe(ret.value.search_radius_deg,
                  CommandFor(TrackWithUncertainty(s)).search_radius_deg)

\* a command whose radius is not at a clamp, with a nearer track whose
\* radius is larger
C27_Witness ==
  /\ Answered("radar_track_to_turret_command")
  /\ "uncertainty_m" \in DOMAIN arg.radar_track
  /\ arg.radar_track.uncertainty_m > 0
  /\ FLt(Fin(SEARCH_MIN_RADIUS), ret.value.search_radius_deg)
  /\ FLt(ret.value.search_radius_deg, Fin(MAX_SEARCH_RADIUS))
  /\ \E n \in TrackOffsets :
       /\ CommandFor(TrackMoved(n)).radar_range_m > ret.value.radar_range_m
       /\ FLt(CommandFor(TrackMoved(n)).search_radius_deg, ret.value.search_radius_deg)

\* C28: in every classification result the veto is CONFIRM iff the label is
\* DRONE, REJECT iff the label is BIRD, REQUIRE_FUSION or
\* INSUFFICIENT_CONTRAST iff the label is UNKNOWN; UNKNOWN carries LOW
\* confidence, DRONE and BIRD never do; only six combinations are returned.
C28_ConsistentVerdict ==
  ClassifyReturned =>
    /\ (ret.veto_decision = "CONFIRM") <=> (ret.classification = "DRONE")
    /\ (ret.veto_decision = "REJECT") <=> (ret.classification = "BIRD")
    /\ (ret.veto_decision \in {"REQUIRE_FUSION", "INSUFFICIENT_CONTRAST"})
         <=> (ret.classification = "UNKNOWN")
    /\ ret.classification = "UNKNOWN" => ret.confidence = "LOW"
    /\ ret.classification \in {"DRONE", "BIRD"} => ret.confidence # "LOW"
    /\ \/ Returned("UNKNOWN", "LOW", "INSUFFICIENT_CONTRAST")
       \/ Returned("UNKNOWN", "LOW", "REQUIRE_FUSION")
       \/ Returned("DRONE", "HIGH", "CONFIRM")
       \/ Returned("DRONE", "MEDIUM", "CONFIRM")
       \/ Returned("BIRD", "MEDIUM", "REJECT")
       \/ Returned("BIRD", "HIGH", "REJECT")

\* an ambiguous target with enough contrast: UNKNOWN reached past the
\* contrast gate
C28_Witness ==
  /\ ClassifyReturned /\ EnoughContrast
  /\ FracGe(TargetMean, AMBIGUOUS_DOLP) /\ FracLt(TargetMean, DRONE_DOLP_MED)
  /\ ret.classification = "UNKNOWN" /\ ret.confidence = "LOW"

\* C29: with the default thresholds classify_target returns BIRD / REJECT
\* only when 0 < background mean < 0.025: over a background mean of 0.025 or
\* more no target mean yields REJECT, so the discard action is not reached
\* and a target mean below 0.05 ends as INSUFFICIENT_CONTRAST with the defer
\* action.
C29_NoRejectOverDefaultBackground ==
  /\ (ClassifyReturned /\ ret.veto_decision = "REJECT")
       => (FracGt(BackgroundMean, 0) /\ FracLt(BackgroundMean, BACKGROUND_DOLP))
  /\ (ClassifyReturned /\ FracGe(BackgroundMean, BACKGROUND_DOLP)) =>
       /\ ret.veto_decision # "REJECT"
       /\ _get_fusion_action(ret) # "DISCARD_AS_BIOLOGICAL"
       /\ ~FracGe(TargetMean, AMBIGUOUS_DOLP) =>
            /\ Returned("UNKNOWN", "LOW", "INSUFFICIENT_CONTRAST")
            /\ _get_fusion_action(ret) = "DEFER_TO_RADAR"

\* the pad amount extract_roi reports on one side: none reported is no padding
ReportedPad(side) ==
  LET bh == ret.metadata.boundary_handling
  IN IF IsNone(bh.pad_amounts) THEN 0 ELSE Get(bh.pad_amounts)[side]

\* C30: the roi_bounds extract_roi reports are a sub-rectangle of the image,
\* 0 <= x_min <= x_max <= width and 0 <= y_min <= y_max <= height, and on
\* each axis (max - min) plus the two pad amounts of that axis is the
\* requested roi_size, for every center and every size.
C30_BoundsAccountForCrop ==
  ExtractRoiReturned =>
    LET b == ret.metadata.roi_location.roi_bounds
        height == arg.full_image.shape[1]
        width == arg.full_image.shape[2]
    IN /\ 0 <= b.x_min /\ b.x_min <= b.x_max /\ b.x_max <= width
       /\ 0 <= b.y_min /\ b.y_min <= b.y_max /\ b.y_max <= height
       /\ (b.x_max - b.x_min) + ReportedPad("left") + ReportedPad("right")
            = RequestedSize
       /\ (b.y_max - b.y_min) + ReportedPad("top") + ReportedPad("bottom")
            = RequestedSize

====
